-------------------------- MODULE PassChainProofs --------------------------
(***************************************************************************)
(* The chain of passes of an Issue, proved for any number of passes,       *)
(* proposals and requests, for any budget and whatever Teams conclude:     *)
(* what ended stays ended, what began is carried, a closed Issue is quiet, *)
(* a pass is not continued twice, and an Issue at rest is one that         *)
(* somebody can see.                                                       *)
(***************************************************************************)
EXTENDS PassChain, FiniteSetTheorems, WellFoundedInduction, TLAPS

-----------------------------------------------------------------------------
(* Types, and what the place of a request says of what it holds. *)

Whys == {"none", "report", "probe", "follow", "settled", "review", "comment"}

JobType == [status : JobStatus \cup {"Absent"}, outcome : JobOutcome \cup {"None"},
            follow : BOOLEAN, proposes : 0 .. MaxProposals, budget : 0 .. MaxAuto - 1,
            from : 0 .. MaxPasses, item : Items, reviewed : BOOLEAN, why : Whys,
            begun : BOOLEAN, heard : BOOLEAN]

RunType == [status : RunStatus \cup {"Absent"}, approval : Approval, reviewed : BOOLEAN,
            artifact : BOOLEAN, dryRun : BOOLEAN, evidence : Evidence]

BriefType == [why : Whys, from : 0 .. MaxPasses, budget : 0 .. MaxAuto - 1, item : Items]

ResultType == [outcome : JobOutcome \cup {"None"}, follow : BOOLEAN,
               proposes : 0 .. MaxProposals]

TaskType ==
    [op : {"none", "report", "approve", "review", "comment", "resume", "abandon"},
     pc : {"idle", "create", "record", "run", "team", "apply", "fallback", "late", "drive",
           "supersede", "propose", "execute", "settled", "drain", "abandon"},
     pass : 0 .. MaxPasses, brief : BriefType, result : ResultType,
     todo : SUBSET Proposals, seen : SUBSET (RunStatus \cup {"Absent"}),
     queue : SUBSET (Passes \X Proposals)]

JobsType == [Passes -> JobType]
RunsType == [Passes -> [Proposals -> RunType]]
CutType == [sweep : BOOLEAN, status : BOOLEAN, lost : SUBSET Passes]

\* Passes are numbered without a gap.
Numbered == Exist = 1 .. LatestPass

\* A request is at the pass it dispatched, at a run that exists, or has nothing in hand.
OfPass == {"record", "run", "team", "apply", "fallback", "late", "drive", "supersede", "propose",
           "abandon"}
Plain == {"run", "team", "apply", "fallback", "late", "drive", "supersede", "propose"}

Fits(r, there) ==
    /\ r.pc = "idle" => r = Idle
    /\ r.pass \in there \cup {0}
    /\ r.pc \in OfPass => r.pass \in there
    /\ r.pc \in Plain => r.brief = NoBrief
    /\ r.pc \in {"record", "settled"} => r.brief.from \in there
    /\ r.pc = "create" =>
         r.brief.from \in there \/ (r.brief.from = 0 /\ r.brief.why # "review")
    /\ r.pc = "execute" =>
         \/ r.op \in {"approve", "resume"} /\ r.brief.item # 0 /\ r.brief.from \in there
         \/ r.pass \in there /\ r.brief = NoBrief /\ r.todo # {}
    /\ r.pc = "drain" => r.op = "resume"
    /\ r.pc = "abandon" => r.op = "abandon"
    /\ r.queue \subseteq there \X Proposals

Holds(t) == Fits(task[t], Exist)

TypeInv ==
    /\ job \in JobsType /\ run \in RunsType /\ task \in [Tasks -> TaskType]
    /\ issue \in IssueStatus \cup {"Absent"}
    /\ mode \in {"Running", "DispatchFrozen", "FullyFrozen"} /\ up \in BOOLEAN
    /\ cut \in CutType
    /\ Numbered
    /\ \A p \in Exist : job[p].from < p
    /\ \A t \in Tasks : Holds(t)
    /\ \A t \in Tasks : task[t].pc = "supersede" => job[task[t].pass].budget # 0

-----------------------------------------------------------------------------
(* The invariants behind the properties. *)

\* Which pass a request may be at while that pass runs: one whose Team has not begun, and
\* then nobody else's, or one its Team or its guard answers for.
CarryInv ==
    /\ \A t \in Tasks : task[t].pc \in {"record", "run"} => ~job[task[t].pass].begun
    /\ \A t, u \in Tasks :
          /\ task[t].pc \in {"record", "run"} /\ task[u].pc \in {"record", "run"}
          /\ task[t].pass = task[u].pass
          => t = u
    /\ \A t \in Tasks :
          task[t].pass \in Exist /\ job[task[t].pass].status = "Running" =>
            task[t].pc \in {"record", "run", "team", "apply", "fallback", "late", "abandon"}
    /\ BegunIsCarried

\* A closed Issue whose sweep went through has no work, whether or not the controller is up.
QuietInv ==
    Closed /\ ~cut.sweep =>
        /\ \A p \in Exist : Ended(p)
        /\ \A p \in Exist : \A x \in RunsOf(p) :
              run[p][x].status \in RunTerminal \cup {"Running", "Verifying"}

-----------------------------------------------------------------------------
(* The operators. *)

\* Of proposals left, the one run_proposals takes next is one of them.
LEMMA FirstIsThere ==
    ASSUME ChainConstants, NEW S \in SUBSET Proposals, S # {}
    PROVE  First(S) \in S
  <1>1. S \subseteq Nat
    BY DEF ChainConstants, Proposals
  <1>2. \E x \in S : \A y \in S : ~(<<y, x>> \in OpToRel(<, Nat))
    BY <1>1, NatLessThanWellFounded, WFMin
  <1>3. PICK x \in S : \A y \in S : ~(<<y, x>> \in OpToRel(<, Nat))
    BY <1>2
  <1>4. \A y \in S : ~(y < x)
    BY <1>1, <1>3, Zenon DEF OpToRel
  <1>5. \A y \in S : x <= y
    BY <1>1, <1>4
  <1> QED
    BY <1>5 DEF First

\* Numbered passes are counted by their last, and the next number is free.
LEMMA Counted ==
    ASSUME NEW n \in Nat
    PROVE  IsFiniteSet(1 .. n) /\ Cardinality(1 .. n) = n
  <1>1. IsFiniteSet(1 .. n) /\ Cardinality(1 .. n) = IF 1 > n THEN 0 ELSE n - 1 + 1
    BY FS_Interval
  <1> QED
    BY <1>1

\* The next number is free, and it is the count of passes plus one.
LEMMA NextIsFree ==
    ASSUME ChainConstants, job \in JobsType, Numbered
    PROVE  /\ LatestPass \in 0 .. MaxPasses /\ NextPass = LatestPass + 1
           /\ Exist = 1 .. LatestPass /\ NextPass \notin Exist /\ NextPass \in Nat
           /\ Room => job[NextPass].status = "Absent"
  <1>1. MaxPasses \in Nat /\ IsFiniteSet(Passes) /\ Cardinality(Passes) = MaxPasses
    BY Counted DEF ChainConstants, Passes
  <1>2. Exist \in SUBSET Passes
    BY DEF Exist
  <1>3. IsFiniteSet(Exist) /\ Cardinality(Exist) <= MaxPasses
    BY <1>1, <1>2, FS_Subset
  <1>4. Cardinality(Exist) \in Nat
    BY <1>3, FS_CardinalityType
  <1>5. /\ LatestPass \in 0 .. MaxPasses /\ NextPass = LatestPass + 1
        /\ Exist = 1 .. LatestPass
    BY <1>1, <1>3, <1>4 DEF LatestPass, NextPass, Numbered
  <1>6. NextPass \notin Exist /\ NextPass \in Nat
    BY <1>5
  <1>7. NextPass \in Passes => job[NextPass].status = "Absent"
    BY <1>6 DEF Exist
  <1> QED
    BY <1>5, <1>6, <1>7 DEF Room

-----------------------------------------------------------------------------
(* What a step does to the records. *)

\* What a step makes of a pass: it is never renamed, never comes back to life, and once it
\* ended only a review may be added.
Later(j, k) ==
    /\ k.why = j.why /\ k.from = j.from /\ k.budget = j.budget /\ k.item = j.item
    /\ k.status = "Absent" <=> j.status = "Absent"
    /\ k.status = "Running" => j.status = "Running"
    /\ j.status \in JobTerminal => \E b \in BOOLEAN : k = [j EXCEPT !.reviewed = b]

\* Its Team, moreover, does not begin.
Ordinary(j, k) == Later(j, k) /\ k.begun = j.begun

\* Runs are left as they are, or ended.
Quieter(runs) ==
    \A p \in Passes, x \in Proposals :
        runs[p][x].status = run[p][x].status \/ runs[p][x].status \in RunTerminal

\* Records are written, and the handler is cut off before the Issue is reconciled with them.
LeftAs(jobs, runs, status) ==
    /\ job' = jobs /\ run' = runs /\ issue' = status
    /\ cut' = [cut EXCEPT !.status = TRUE]
    /\ status \in IssueTerminal => Closed /\ Quieter(runs)

Writes(jobs, runs, status) ==
    \/ Commit(jobs, runs, status)
    \/ CommitCutOff(jobs, runs, status)
    \/ LeftAs(jobs, runs, status)

\* Records are written and the Issue follows them, or a human closes it, or either is cut off.
Settles ==
    \E jobs \in JobsType, runs \in RunsType, status \in IssueStatus \cup {"Absent"} :
        /\ \A p \in Passes : Ordinary(job[p], jobs[p])
        /\ Closed => status \in IssueTerminal
        /\ Writes(jobs, runs, status)

\* A pass may be given up.
GivesUp ==
    \E lost \in SUBSET Passes : cut.lost \subseteq lost /\ cut' = [cut EXCEPT !.lost = lost]

\* At most passes are written, or given up.
Touches ==
    /\ UNCHANGED <<run, issue>> /\ GivesUp
    /\ job' \in JobsType
    /\ \A p \in Passes : Ordinary(job[p], job'[p])

\* The Team of a pass begins.
Begins(p) ==
    /\ UNCHANGED <<run, issue, cut>>
    /\ ~Closed /\ ~Ended(p)
    /\ job' = [job EXCEPT ![p].begun = TRUE]

\* A pass is added, on a live Issue.
Adds(brief) ==
    /\ Room /\ ~Closed
    /\ UNCHANGED <<run, cut>> /\ issue' \in (IssueStatus \cup {"Absent"}) \ IssueTerminal
    /\ job' \in JobsType
    /\ job'[NextPass] = NewPass(brief)
    /\ \A p \in Passes \ {NextPass} : Ordinary(job[p], job'[p])

\* A pass left alone took an ordinary step.
LEMMA OrdinaryReflexive ==
    ASSUME NEW j \in JobType
    PROVE  Ordinary(j, j)
  BY DEF Ordinary, Later, JobType

\* Two ordinary steps of a pass make one.
LEMMA OrdinaryTransitive ==
    ASSUME NEW i \in JobType, NEW j \in JobType, NEW k \in JobType,
           Ordinary(i, j), Ordinary(j, k)
    PROVE  Ordinary(i, k)
  <1>1. ASSUME i.status \in JobTerminal
        PROVE  \E b \in BOOLEAN : k = [i EXCEPT !.reviewed = b]
    <2>1. PICK b \in BOOLEAN : j = [i EXCEPT !.reviewed = b]
      BY <1>1 DEF Ordinary, Later
    <2>2. j.status = i.status
      BY <2>1 DEF JobType
    <2>3. PICK c \in BOOLEAN : k = [j EXCEPT !.reviewed = c]
      BY <1>1, <2>2 DEF Ordinary, Later
    <2>4. k = [i EXCEPT !.reviewed = c]
      BY <2>1, <2>3 DEF JobType
    <2> QED
      BY <2>4
  <1> QED
    BY <1>1 DEF Ordinary, Later

\* A pass that had not ended may be ended.
LEMMA Cancelling ==
    ASSUME NEW j \in JobType, j.status \notin JobTerminal, j.status # "Absent",
           NEW end \in JobStatus \ {"Running"}
    PROVE  /\ [j EXCEPT !.status = end] \in JobType
           /\ Ordinary(j, [j EXCEPT !.status = end])
  BY DEF Ordinary, Later, JobType, JobStatus, JobTerminal

\* Closing an Issue cancels what is left of its work, or of some of it, and nothing else.
LEMMA CancelledRecords ==
    ASSUME NEW jobs \in JobsType, NEW runs \in RunsType, NEW js, NEW xs
    PROVE  /\ CancelledJobs(jobs, js) \in JobsType /\ CancelledRuns(runs, xs) \in RunsType
           /\ \A p \in Passes : Ordinary(jobs[p], CancelledJobs(jobs, js)[p])
  <1> DEFINE k(p) == CancelledJobs(jobs, js)[p]
  <1>1. ASSUME NEW p \in Passes PROVE k(p) \in JobType /\ Ordinary(jobs[p], k(p))
    <2>1. jobs[p] \in JobType
      BY DEF JobsType
    <2>2. CASE p \in js /\ jobs[p].status \in JobStatus \ JobTerminal
      <3>1. jobs[p].status # "Absent"
        BY <2>2 DEF JobStatus
      <3> QED
        BY <2>1, <2>2, <3>1, Cancelling DEF CancelledJobs, JobStatus
    <2>3. CASE ~(p \in js /\ jobs[p].status \in JobStatus \ JobTerminal)
      BY <2>1, <2>3, OrdinaryReflexive DEF CancelledJobs
    <2> QED
      BY <2>2, <2>3
  <1>2. ASSUME NEW p \in Passes, NEW x \in Proposals
        PROVE  /\ runs[p][x] \in RunType
               /\ [runs[p][x] EXCEPT !.status = "Cancelled"] \in RunType
    BY DEF RunsType, RunType, RunStatus
  <1> QED
    BY <1>1, <1>2 DEF CancelledJobs, CancelledRuns, JobsType, RunsType

\* Whatever is written is of its type, and each pass a later form of what was there.
LEMMA CommitWrites ==
    ASSUME NEW jobs \in JobsType, NEW runs \in RunsType, NEW status,
           job \in JobsType, cut \in CutType, \A p \in Passes : Ordinary(job[p], jobs[p]),
           Writes(jobs, runs, status)
    PROVE  /\ job' \in JobsType /\ run' \in RunsType /\ cut' \in CutType
           /\ issue' = status /\ cut'.lost = cut.lost
           /\ \A p \in Passes : Ordinary(job[p], job'[p])
           /\ \A p \in Passes : Ordinary(jobs[p], job'[p])
  <1>1. /\ job' = jobs \/ \E js : job' = CancelledJobs(jobs, js)
        /\ run' = runs \/ \E xs : run' = CancelledRuns(runs, xs)
        /\ issue' = status
    BY DEF Writes, Commit, CommitCutOff, LeftAs
  <1>2. \A p \in Passes : job[p] \in JobType /\ jobs[p] \in JobType
    BY DEF JobsType
  <1>3. job' \in JobsType /\ \A p \in Passes : Ordinary(jobs[p], job'[p])
    <2>1. CASE job' = jobs
      BY <1>2, <2>1, OrdinaryReflexive
    <2>2. ASSUME NEW js, job' = CancelledJobs(jobs, js)
          PROVE  job' \in JobsType /\ \A p \in Passes : Ordinary(jobs[p], job'[p])
      BY <2>2, CancelledRecords
    <2> QED
      BY <1>1, <2>1, <2>2
  <1>4. run' \in RunsType
    BY <1>1, CancelledRecords
  <1>5. \A p \in Passes : Ordinary(job[p], job'[p])
    <2>1. \A p \in Passes : job'[p] \in JobType
      BY <1>3 DEF JobsType
    <2> QED
      BY <1>2, <1>3, <2>1, OrdinaryTransitive
  <1>6. cut' \in CutType /\ cut'.lost = cut.lost
    <2>1. PICK a \in BOOLEAN, b \in BOOLEAN : cut' = [cut EXCEPT !.sweep = a, !.status = b]
      <3>1. CASE Commit(jobs, runs, status)
        <4> DEFINE a == cut.sweep /\ status \notin IssueTerminal
                   b == cut.status /\ status # DerivedFrom(jobs, runs)
        <4>1. a \in BOOLEAN /\ b \in BOOLEAN
          BY DEF CutType
        <4>2. cut' = [cut EXCEPT !.sweep = a, !.status = b]
          BY <3>1 DEF Commit
        <4> QED
          BY <4>1, <4>2
      <3>2. CASE CommitCutOff(jobs, runs, status)
        <4>1. cut' = [cut EXCEPT !.sweep = TRUE] /\ cut.status \in BOOLEAN
          BY <3>2 DEF CommitCutOff, CutType
        <4>2. [cut EXCEPT !.sweep = TRUE] = [cut EXCEPT !.sweep = TRUE, !.status = cut.status]
          BY DEF CutType
        <4> QED
          BY <4>1, <4>2
      <3>3. CASE LeftAs(jobs, runs, status)
        <4>1. cut' = [cut EXCEPT !.status = TRUE] /\ cut.sweep \in BOOLEAN
          BY <3>3 DEF LeftAs, CutType
        <4>2. [cut EXCEPT !.status = TRUE] = [cut EXCEPT !.sweep = cut.sweep, !.status = TRUE]
          BY DEF CutType
        <4> QED
          BY <4>1, <4>2
      <3> QED
        BY <3>1, <3>2, <3>3 DEF Writes
    <2> QED
      BY <2>1 DEF CutType
  <1> QED
    BY <1>1, <1>3, <1>4, <1>5, <1>6

\* What an Issue's work may imply.
LEMMA DerivedIs ==
    ASSUME NEW jobs, NEW runs
    PROVE  DerivedFrom(jobs, runs) \in
             {"None", "Investigating", "Mitigating", "Verifying", "Resolved", "WaitingForHuman"}
  <1>1. ASSUME NEW js, NEW rs, NEW done
        PROVE  DerivedIssueStatus(js, rs, done) \in
                 {"None", "Investigating", "Mitigating", "Verifying", "Resolved", "WaitingForHuman"}
    BY DEF DerivedIssueStatus
  <1> QED
    BY <1>1 DEF DerivedFrom

\* A reconciliation takes an Issue where it may go, or leaves it.
LEMMA FollowsIssue ==
    ASSUME NEW status \in IssueStatus \cup {"Absent"}, NEW jobs, NEW runs
    PROVE  /\ Follows(status, jobs, runs) \in IssueStatus \cup {"Absent"}
           /\ status \in IssueTerminal => Follows(status, jobs, runs) = status
  <1>1. IssueNext(status) \subseteq IssueStatus
    BY DEF IssueNext, IssueStatus
  <1>2. status \in IssueTerminal => IssueNext(status) = {}
    BY DEF IssueNext, IssueTerminal
  <1> QED
    BY <1>1, <1>2 DEF Follows

\* A reconciliation over later records settles, once or twice.
LEMMA ReconciledSettles ==
    ASSUME TypeInv, NEW jobs \in JobsType, NEW runs \in RunsType,
           \A p \in Passes : Ordinary(job[p], jobs[p]),
           \/ Reconciled(jobs, runs)
           \/ \E between : ReconciledTwice(between, jobs, runs)
    PROVE  Settles
  <1>1. issue \in IssueStatus \cup {"Absent"}
    BY DEF TypeInv
  <1>2. CASE Reconciled(jobs, runs)
    <2> DEFINE status == Follows(issue, jobs, runs)
    <2>1. status \in IssueStatus \cup {"Absent"} /\ (Closed => status \in IssueTerminal)
      BY <1>1, FollowsIssue DEF Closed
    <2>2. Commit(jobs, runs, status)
      BY <1>2 DEF Reconciled
    <2> HIDE DEF status
    <2> QED
      BY <2>1, <2>2 DEF Settles, Writes
  <1>3. CASE \E between : ReconciledTwice(between, jobs, runs)
    <2>1. PICK between : ReconciledTwice(between, jobs, runs)
      BY <1>3
    <2> DEFINE first == Follows(issue, jobs, between)
               status == Follows(first, jobs, runs)
    <2>2. first \in IssueStatus \cup {"Absent"} /\ (Closed => first \in IssueTerminal)
      BY <1>1, FollowsIssue DEF Closed
    <2>3. Commit(jobs, runs, status)
      BY <2>1 DEF ReconciledTwice
    <2> HIDE DEF first
    <2>4. status \in IssueStatus \cup {"Absent"} /\ (Closed => status \in IssueTerminal)
      BY <2>2, FollowsIssue
    <2> HIDE DEF status
    <2> QED
      BY <2>3, <2>4 DEF Settles, Writes
  <1> QED
    BY <1>2, <1>3

\* A handler that is cut off over later records settles them too.
LEMMA CutInSettles ==
    ASSUME TypeInv, NEW jobs \in JobsType, NEW runs \in RunsType,
           \A p \in Passes : Ordinary(job[p], jobs[p]),
           NEW status \in IssueStatus \cup {"Absent"}, Closed => status = issue,
           status \in IssueTerminal => Closed /\ Quieter(runs),
           CutIn(jobs, runs, status)
    PROVE  Settles
  <1> DEFINE next == Follows(status, jobs, runs)
  <1>1. /\ next \in IssueStatus \cup {"Absent"}
        /\ status \in IssueTerminal => next = status
    BY FollowsIssue
  <1>2. LeftAs(jobs, runs, status) \/ CommitCutOff(jobs, runs, next)
    BY DEF CutIn, LeftAs
  <1> HIDE DEF next
  <1>3. CASE LeftAs(jobs, runs, status)
    BY <1>3 DEF Settles, Writes, Closed
  <1>4. CASE CommitCutOff(jobs, runs, next)
    BY <1>1, <1>4 DEF Settles, Writes, Closed
  <1> QED
    BY <1>2, <1>3, <1>4

-----------------------------------------------------------------------------
(* The same, action by action. *)

\* Nothing is written.
LEMMA UntouchedTouches ==
    ASSUME TypeInv, UNCHANGED <<job, run, issue, cut>>
    PROVE  Touches
  <1>1. cut.lost \in SUBSET Passes /\ cut = [cut EXCEPT !.lost = cut.lost]
    BY DEF TypeInv, CutType
  <1>2. GivesUp
    BY <1>1 DEF GivesUp
  <1> QED
    BY <1>2, OrdinaryReflexive DEF Touches, TypeInv, JobsType

\* Only passes are written.
LEMMA NothingGivenUp ==
    ASSUME TypeInv, UNCHANGED cut
    PROVE  GivesUp
  BY DEF TypeInv, CutType, GivesUp

\* A pass that had not ended is ended.
LEMMA EndingTouches ==
    ASSUME TypeInv, NEW p \in Exist, ~Ended(p), NEW end \in JobStatus \ {"Running"}
    PROVE  LET jobs == [job EXCEPT ![p].status = end]
           IN jobs \in JobsType /\ \A q \in Passes : Ordinary(job[q], jobs[q])
  <1> DEFINE jobs == [job EXCEPT ![p].status = end]
  <1>1. job \in JobsType /\ p \in Passes /\ job[p].status # "Absent"
    BY DEF TypeInv, Exist
  <1>2. job[p] \in JobType
    BY <1>1 DEF JobsType
  <1>3. [job[p] EXCEPT !.status = end] \in JobType /\ Ordinary(job[p], [job[p] EXCEPT !.status = end])
    BY <1>1, <1>2, Cancelling DEF Ended
  <1>4. jobs \in JobsType
    BY <1>1, <1>3 DEF JobsType
  <1>5. ASSUME NEW q \in Passes PROVE Ordinary(job[q], jobs[q])
    <2>1. CASE q = p
      <3>1. jobs[q] = [job[p] EXCEPT !.status = end]
        BY <1>1, <2>1 DEF JobsType
      <3> QED
        BY <1>3, <2>1, <3>1
    <2>2. CASE q # p
      <3>1. jobs[q] = job[q] /\ job[q] \in JobType
        BY <1>1, <2>2 DEF JobsType
      <3> QED
        BY <3>1, OrdinaryReflexive
    <2> QED
      BY <2>1, <2>2
  <1> QED
    BY <1>4, <1>5

\* A brief becomes a pass.
LEMMA Inserting ==
    ASSUME ChainConstants, TypeInv, NEW b \in BriefType, Room
    PROVE  /\ Inserted(b) \in JobsType
           /\ NextPass \in Passes /\ NextPass \notin Exist
           /\ Inserted(b)[NextPass] = NewPass(b)
           /\ \A p \in Passes \ {NextPass} :
                Inserted(b)[p] = job[p] /\ Ordinary(job[p], Inserted(b)[p])
  <1>1. job \in JobsType /\ NextPass \in Passes /\ NextPass \notin Exist
    BY NextIsFree DEF TypeInv, Room
  <1>2. NewPass(b) \in JobType
    <2>1. NoPass \in JobType
      BY DEF NoPass, JobType, Items, Whys, ChainConstants
    <2>2. /\ b.why \in Whys /\ b.from \in 0 .. MaxPasses /\ b.budget \in 0 .. MaxAuto - 1
          /\ b.item \in Items /\ 0 \in 0 .. MaxProposals
      BY DEF BriefType, ChainConstants
    <2>3. "Running" \in JobStatus
      BY DEF JobStatus
    <2>4. ASSUME NEW r \in JobType
          PROVE  [r EXCEPT !.status = "Running", !.budget = b.budget, !.from = b.from,
                           !.why = b.why, !.item = b.item] \in JobType
      BY <2>2, <2>3 DEF JobType
    <2> QED
      BY <2>1, <2>4 DEF NewPass
  <1>3. Inserted(b) \in JobsType /\ Inserted(b)[NextPass] = NewPass(b)
    BY <1>1, <1>2 DEF Inserted, JobsType
  <1>4. ASSUME NEW p \in Passes \ {NextPass}
        PROVE  Inserted(b)[p] = job[p] /\ Ordinary(job[p], Inserted(b)[p])
    <2>1. Inserted(b)[p] = job[p] /\ job[p] \in JobType
      BY <1>1 DEF Inserted, JobsType
    <2> QED
      BY <2>1, OrdinaryReflexive
  <1> QED
    BY <1>1, <1>3, <1>4

\* A request is of its type, and at a pass that exists where its place says so.
LEMMA BriefOf ==
    ASSUME TypeInv, NEW t \in Tasks
    PROVE  /\ task[t] \in TaskType /\ task[t].brief \in BriefType
           /\ Fits(task[t], Exist)
           /\ task[t].pc \in OfPass =>
                /\ task[t].pass \in Exist /\ task[t].pass \in Passes
                /\ job[task[t].pass] \in JobType
  <1>1. task[t] \in TaskType /\ job \in JobsType
    BY DEF TypeInv
  <1>2. task[t].brief \in BriefType
    BY <1>1 DEF TaskType
  <1>3. Fits(task[t], Exist)
    BY DEF TypeInv, Holds
  <1>4. task[t].pc \in OfPass => task[t].pass \in Exist
    BY <1>3 DEF Fits
  <1>5. Exist \subseteq Passes
    BY DEF Exist
  <1> QED
    BY <1>1, <1>2, <1>3, <1>4, <1>5 DEF JobsType

\* create_job adds a pass, or refuses and ends the request.
LEMMA CreateShape ==
    ASSUME ChainConstants, TypeInv, NEW t \in Tasks, Create(t) \/ CreateInterrupted(t)
    PROVE  Adds(task[t].brief) \/ (Touches /\ task'[t] = Idle)
  <1>1. task[t].brief \in BriefType /\ job \in JobsType /\ issue \in IssueStatus \cup {"Absent"}
    BY BriefOf DEF TypeInv
  <1>2. CASE Admits
    <2>1. /\ Room /\ job' = Inserted(task[t].brief) /\ UNCHANGED <<run, cut>> /\ ~Closed
          /\ issue' \in {issue, "Investigating"}
      BY <1>2 DEF Create, CreateInterrupted, Admits
    <2>2. issue' \in (IssueStatus \cup {"Absent"}) \ IssueTerminal
      BY <1>1, <2>1 DEF IssueStatus, IssueTerminal, Closed
    <2> QED
      BY <1>1, <2>1, <2>2, Inserting DEF Adds
  <1>3. CASE ~Admits
    <2>1. UNCHANGED <<job, run, issue, cut>> /\ task' = [task EXCEPT ![t] = Idle]
      BY <1>3 DEF Create, CreateInterrupted, Fail, Set
    <2>2. task \in [Tasks -> TaskType]
      BY DEF TypeInv
    <2> QED
      BY <2>1, <2>2, UntouchedTouches
  <1> QED
    BY <1>2, <1>3

\* supersede_job ends one pass and adds another, or refuses and ends the request.
LEMMA SupersedeShape ==
    ASSUME ChainConstants, TypeInv, NEW t \in Tasks, Supersede(t)
    PROVE  \/ /\ Adds(Probe(task[t].pass))
              /\ ~Ended(task[t].pass) /\ job'[task[t].pass].status = "Superseded"
              /\ task[t].pass # NextPass
           \/ Touches /\ task'[t] = Idle
  <1> DEFINE p == task[t].pass
  <1>1. /\ p \in Exist /\ p \in Passes /\ job[p] \in JobType /\ job \in JobsType
        /\ issue \in IssueStatus \cup {"Absent"} /\ task \in [Tasks -> TaskType]
    BY BriefOf DEF TypeInv, Supersede, At, OfPass
  <1>2. p <= MaxPasses /\ p \in Nat /\ job[p].budget \in 0 .. MaxAuto - 1 /\ job[p].budget # 0
    BY <1>1 DEF TypeInv, Supersede, At, Passes, JobType, ChainConstants
  <1>3. Probe(p) \in BriefType
    BY <1>1, <1>2 DEF Probe, OneLess, BriefType, Whys, Items, ChainConstants
  <1>4. CASE Admits /\ ~Ended(p)
    <2>1. Room /\ UNCHANGED <<run, cut>> /\ issue' = issue /\ ~Closed
      BY <1>4 DEF Supersede, Same, Admits
    <2>2. job' = [Inserted(Probe(p)) EXCEPT ![p].status = "Superseded"]
      BY <1>4 DEF Supersede, Superseded
    <2> DEFINE more == Inserted(Probe(p))
    <2>3. /\ more \in JobsType /\ more[NextPass] = NewPass(Probe(p)) /\ p # NextPass
          /\ \A q \in Passes \ {NextPass} : more[q] = job[q]
      BY <1>1, <1>3, <2>1, Inserting
    <2>4. job' = [more EXCEPT ![p].status = "Superseded"]
      BY <2>2
    <2> HIDE DEF more
    <2>5. [job[p] EXCEPT !.status = "Superseded"] \in JobType
          /\ Ordinary(job[p], [job[p] EXCEPT !.status = "Superseded"])
      BY <1>1, <1>4, Cancelling DEF Ended, Exist, JobStatus
    <2>6. /\ job'[p] = [job[p] EXCEPT !.status = "Superseded"]
          /\ \A q \in Passes \ {p} : job'[q] = more[q]
          /\ job' \in [Passes -> JobType]
      BY <1>1, <2>3, <2>4, <2>5 DEF JobsType
    <2>7. job'[p].status = "Superseded"
      BY <1>1, <2>6 DEF JobType
    <2>8. ASSUME NEW q \in Passes \ {NextPass} PROVE Ordinary(job[q], job'[q])
      <3>1. CASE q = p
        BY <2>5, <2>6, <3>1
      <3>2. CASE q # p
        <4>1. job'[q] = job[q] /\ job[q] \in JobType
          BY <1>1, <2>3, <2>6, <3>2 DEF JobsType
        <4> QED
          BY <4>1, OrdinaryReflexive
      <3> QED
        BY <3>1, <3>2
    <2>9. issue' \in (IssueStatus \cup {"Absent"}) \ IssueTerminal
      BY <1>1, <2>1 DEF Closed
    <2>10. job'[NextPass] = NewPass(Probe(p))
      BY <2>1, <2>3, <2>6 DEF Room
    <2>11. Adds(Probe(p))
      BY <2>1, <2>6, <2>8, <2>9, <2>10 DEF Adds, JobsType
    <2> QED
      BY <1>4, <2>3, <2>7, <2>11
  <1>5. CASE ~(Admits /\ ~Ended(p))
    <2>1. UNCHANGED <<job, run, issue, cut>> /\ task' = [task EXCEPT ![t] = Idle]
      BY <1>5 DEF Supersede, Fail, Set
    <2> QED
      BY <1>1, <2>1, UntouchedTouches
  <1> QED
    BY <1>4, <1>5

\* run_team begins the Team of a pass, or cancels the pass.
LEMMA RunShape ==
    ASSUME TypeInv, NEW t \in Tasks, Run(t)
    PROVE  Begins(task[t].pass) \/ Touches
  <1> DEFINE p == task[t].pass
  <1>1. p \in Exist
    BY BriefOf DEF Run, At, OfPass
  <1>2. UNCHANGED <<run, issue, cut>> /\ GivesUp
    BY NothingGivenUp DEF Run
  <1>3. CASE StillWanted(p)
    BY <1>2, <1>3 DEF Run, Begins, StillWanted
  <1>4. CASE ~StillWanted(p) /\ ~Ended(p)
    <2>1. job' = [job EXCEPT ![p].status = "Cancelled"]
      BY <1>4 DEF Run
    <2> QED
      BY <1>1, <1>2, <1>4, <2>1, EndingTouches DEF Touches, JobStatus
  <1>5. CASE ~StillWanted(p) /\ Ended(p)
    BY <1>2, <1>5, UntouchedTouches DEF Run
  <1> QED
    BY <1>3, <1>4, <1>5

\* One pass is written, and what it becomes is an ordinary step of it.
LEMMA WritingOne ==
    ASSUME job \in JobsType, NEW p \in Passes, NEW k \in JobType, Ordinary(job[p], k)
    PROVE  /\ [job EXCEPT ![p] = k] \in JobsType
           /\ \A q \in Passes : Ordinary(job[q], [job EXCEPT ![p] = k][q])
  <1>1. [job EXCEPT ![p] = k] \in JobsType /\ [job EXCEPT ![p] = k][p] = k
    BY DEF JobsType
  <1>2. ASSUME NEW q \in Passes, q # p PROVE Ordinary(job[q], [job EXCEPT ![p] = k][q])
    <2>1. [job EXCEPT ![p] = k][q] = job[q] /\ job[q] \in JobType
      BY <1>2 DEF JobsType
    <2> QED
      BY <2>1, OrdinaryReflexive
  <1> QED
    BY <1>1, <1>2

\* The final callback marks the pass as heard, or cancels it.
LEMMA DeliverShape ==
    ASSUME TypeInv, NEW t \in Tasks, Deliver(t)
    PROVE  Touches
  <1> DEFINE p == task[t].pass
  <1>1. p \in Exist /\ p \in Passes /\ job[p] \in JobType /\ job \in JobsType
    BY BriefOf DEF Deliver, At, OfPass, TypeInv
  <1>2. UNCHANGED <<run, issue, cut>> /\ GivesUp
    BY NothingGivenUp DEF Deliver
  <1>3. CASE StillWanted(p)
    <2>1. [job[p] EXCEPT !.heard = TRUE] \in JobType
          /\ Ordinary(job[p], [job[p] EXCEPT !.heard = TRUE])
      BY <1>1, <1>3 DEF JobType, Ordinary, Later, StillWanted, Ended
    <2>2. job' = [job EXCEPT ![p].heard = TRUE]
      BY <1>3 DEF Deliver
    <2>3. job' = [job EXCEPT ![p] = [job[p] EXCEPT !.heard = TRUE]]
      BY <2>2
    <2> QED
      BY <1>1, <1>2, <2>1, <2>3, WritingOne DEF Touches
  <1>4. CASE ~StillWanted(p) /\ ~Ended(p)
    <2>1. job' = [job EXCEPT ![p].status = "Cancelled"]
      BY <1>4 DEF Deliver
    <2> QED
      BY <1>1, <1>2, <1>4, <2>1, EndingTouches DEF Touches, JobStatus
  <1>5. CASE ~StillWanted(p) /\ Ended(p)
    BY <1>2, <1>5, UntouchedTouches DEF Deliver
  <1> QED
    BY <1>3, <1>4, <1>5

\* A result that is not believed is a result still.
LEMMA ClampedType ==
    ASSUME NEW r \in ResultType
    PROVE  Clamped(r) \in ResultType
  BY DEF Clamped, ResultType, JobOutcome

\* Records left alone are later forms of themselves.
LEMMA JobStays ==
    ASSUME TypeInv
    PROVE  /\ job \in JobsType /\ run \in RunsType
           /\ \A p \in Passes : Ordinary(job[p], job[p])
  BY OrdinaryReflexive DEF TypeInv, JobsType

\* A result may be recorded on a pass that has not ended.
LEMMA ResultWrites ==
    ASSUME TypeInv, NEW p \in Exist, ~Ended(p), NEW r \in ResultType
    PROVE  /\ WithResult(p, r) \in JobsType
           /\ \A q \in Passes : Ordinary(job[q], WithResult(p, r)[q])
           /\ WithResult(p, r)[p].status # "Running"
  <1> DEFINE done == Completed(job[p], r)
  <1>1. p \in Passes /\ job[p] \in JobType /\ job \in JobsType /\ job[p].status # "Absent"
    BY DEF Exist, TypeInv, JobsType
  <1>2. /\ r.outcome \in JobOutcome \cup {"None"} /\ r.follow \in BOOLEAN
        /\ r.proposes \in 0 .. MaxProposals
    BY DEF ResultType
  <1>3. StatusOfOutcome(r.outcome) \in JobStatus \ {"Running"}
    BY DEF StatusOfOutcome, JobStatus
  <1>4. done \in JobType /\ Ordinary(job[p], done) /\ done.status # "Running"
    BY <1>1, <1>2, <1>3 DEF Completed, JobType, Ordinary, Later, JobStatus, Ended
  <1>5. WithResult(p, r) = [job EXCEPT ![p] = done]
    BY DEF WithResult
  <1> HIDE DEF done
  <1>6. /\ [job EXCEPT ![p] = done] \in JobsType
        /\ \A q \in Passes : Ordinary(job[q], [job EXCEPT ![p] = done][q])
        /\ [job EXCEPT ![p] = done][p] = done
    BY <1>1, <1>4, WritingOne DEF JobsType
  <1> QED
    BY <1>4, <1>5, <1>6

\* A pass whose result may still be recorded has not ended.
LEMMA NotEndedYet ==
    ASSUME TypeInv, NEW p \in Exist, Unchanged(p) \/ MayFail(p)
    PROVE  ~Ended(p)
  <1>1. ASSUME NEW s \in JobTerminal PROVE "Failed" \notin JobNext(s) /\ s # "Running"
    BY DEF JobNext, JobTerminal
  <1> QED
    BY <1>1 DEF Unchanged, MayFail, Ended

\* A failure is a result.
LEMMA FailureType == ChainConstants => Failure \in ResultType /\ NoResult \in ResultType
  <1> SUFFICES ASSUME ChainConstants PROVE Failure \in ResultType /\ NoResult \in ResultType
    OBVIOUS
  <1>1. NoResult \in ResultType
    BY DEF NoResult, ResultType, ChainConstants
  <1> HIDE DEF NoResult
  <1>2. "Failed" \in JobOutcome
    BY DEF JobOutcome
  <1>3. Failure = [NoResult EXCEPT !.outcome = "Failed"]
    BY DEF Failure
  <1> QED
    BY <1>1, <1>2, <1>3 DEF ResultType

\* The result is recorded and the Issue reconciled, or nothing is written.
LEMMA ApplyShape ==
    ASSUME TypeInv, NEW t \in Tasks, Apply(t)
    PROVE  Settles \/ Touches
  <1> DEFINE p == task[t].pass
             r == Clamped(task[t].result)
  <1>1. p \in Exist /\ r \in ResultType
    BY BriefOf, ClampedType DEF Apply, At, OfPass, Plain, TaskType
  <1>2. CASE Unchanged(p)
    <2>1. Reconciled(WithResult(p, r), run)
      BY <1>2 DEF Apply
    <2>2. ~Ended(p)
      BY <1>1, <1>2, NotEndedYet
    <2> HIDE DEF r
    <2>3. /\ WithResult(p, r) \in JobsType
          /\ \A q \in Passes : Ordinary(job[q], WithResult(p, r)[q])
      BY <1>1, <2>2, ResultWrites
    <2> QED
      BY <2>1, <2>3, JobStays, ReconciledSettles
  <1>3. CASE ~Unchanged(p)
    BY <1>3, UntouchedTouches DEF Apply
  <1> QED
    BY <1>2, <1>3

\* The Team's failure is noted, or the pass cancelled.
LEMMA FallbackShape ==
    ASSUME TypeInv, NEW t \in Tasks, Fallback(t)
    PROVE  Touches
  <1> DEFINE p == task[t].pass
  <1>1. p \in Exist /\ p \in Passes /\ job[p] \in JobType /\ job \in JobsType
    BY BriefOf DEF Fallback, At, OfPass, Plain, TypeInv
  <1>2. UNCHANGED <<run, issue, cut>> /\ GivesUp
    BY NothingGivenUp DEF Fallback
  <1>3. CASE Ended(p)
    <2>1. job' = job
      BY <1>3 DEF Fallback
    <2> QED
      BY <1>2, <2>1, UntouchedTouches
  <1>4. CASE ~Ended(p) /\ Closed
    <2>1. job' = [job EXCEPT ![p].status = "Cancelled"]
      BY <1>4 DEF Fallback
    <2> QED
      BY <1>1, <1>2, <1>4, <2>1, EndingTouches DEF Touches, JobStatus
  <1>5. CASE ~Ended(p) /\ ~Closed
    <2> DEFINE k == [job[p] EXCEPT !.heard = TRUE]
    <2>1. k \in JobType /\ Ordinary(job[p], k)
      BY <1>1, <1>5 DEF JobType, Ordinary, Later, Ended
    <2>2. job' = [job EXCEPT ![p] = k]
      BY <1>5 DEF Fallback
    <2> HIDE DEF k
    <2> QED
      BY <1>1, <1>2, <2>1, <2>2, WritingOne DEF Touches
  <1> QED
    BY <1>3, <1>4, <1>5

\* The failure is recorded and the Issue reconciled, or nothing is written.
LEMMA LateShape ==
    ASSUME ChainConstants, TypeInv, NEW t \in Tasks, Late(t)
    PROVE  Settles \/ Touches
  <1> DEFINE p == task[t].pass
  <1>1. p \in Exist
    BY BriefOf DEF Late, At, OfPass, Plain
  <1>2. CASE MayFail(p)
    <2>1. Reconciled(WithResult(p, Failure), run)
      BY <1>2 DEF Late
    <2>2. /\ WithResult(p, Failure) \in JobsType
          /\ \A q \in Passes : Ordinary(job[q], WithResult(p, Failure)[q])
      BY <1>1, <1>2, NotEndedYet, FailureType, ResultWrites
    <2> QED
      BY <2>1, <2>2, JobStays, ReconciledSettles
  <1>3. CASE ~MayFail(p)
    BY <1>3, UntouchedTouches DEF Late
  <1> QED
    BY <1>2, <1>3

\* drive_passes cancels the pass of a closed Issue, and writes nothing else.
LEMMA DriveShape ==
    ASSUME TypeInv, NEW t \in Tasks, Drive(t)
    PROVE  Touches
  <1> DEFINE p == task[t].pass
  <1>1. p \in Exist
    BY BriefOf DEF Drive, At, OfPass
  <1>2. UNCHANGED <<run, issue, cut>> /\ GivesUp
    BY NothingGivenUp DEF Drive
  <1>3. CASE Closed /\ ~Ended(p)
    <2>1. job' = [job EXCEPT ![p].status = "Cancelled"]
      BY <1>3 DEF Drive
    <2> QED
      BY <1>1, <1>2, <1>3, <2>1, EndingTouches DEF Touches, JobStatus
  <1>4. CASE ~(Closed /\ ~Ended(p))
    <2>1. job' = job
      BY <1>4 DEF Drive
    <2> QED
      BY <1>2, <2>1, UntouchedTouches
  <1> QED
    BY <1>3, <1>4

\* An interrupted supersession ends a pass.
LEMMA SupersedeInterruptedShape ==
    ASSUME TypeInv, NEW t \in Tasks, SupersedeInterrupted(t)
    PROVE  Touches
  <1> DEFINE p == task[t].pass
  <1>1. p \in Exist
    BY BriefOf DEF SupersedeInterrupted, At, OfPass
  <1>2. /\ UNCHANGED <<run, issue, cut>> /\ GivesUp /\ ~Ended(p)
        /\ job' = [job EXCEPT ![p].status = "Superseded"]
    BY NothingGivenUp DEF SupersedeInterrupted, Superseded
  <1> QED
    BY <1>1, <1>2, EndingTouches DEF Touches, JobStatus

\* One run may be written.
LEMMA OneRunType ==
    ASSUME NEW runs \in RunsType, NEW p \in Passes, NEW x \in Proposals, NEW r \in RunType
    PROVE  runs[p][x] \in RunType /\ [runs EXCEPT ![p][x] = r] \in RunsType
  BY DEF RunsType

\* What the gateway decides of a proposal is a run.
LEMMA DecidedType ==
    ASSUME NEW row
    PROVE  Decided(row) \in RunType
  BY DEF Decided, NewRun, NoRun, RunType, RunStatus, Approval, Evidence

\* One run may be written, here the one of a proposal.
LEMMA RunWrites ==
    ASSUME TypeInv, NEW p \in Passes, NEW x \in Proposals, NEW r \in RunType
    PROVE  /\ run[p][x] \in RunType /\ WithRun(p, x, r) \in RunsType
           /\ WithRun(p, x, r)[p][x] = r
           /\ \A q \in Passes, y \in Proposals :
                <<q, y>> # <<p, x>> => WithRun(p, x, r)[q][y] = run[q][y]
  <1>1. run \in RunsType
    BY DEF TypeInv
  <1>2. run[p][x] \in RunType /\ WithRun(p, x, r) \in RunsType
    BY <1>1, OneRunType DEF WithRun
  <1> QED
    BY <1>1, <1>2 DEF WithRun, RunsType

\* What an execution leaves is a run.
LEMMA SettledType ==
    ASSUME ChainConstants, NEW r \in RunType,
           NEW effect \in Effects \cup {"None", "Failed", "VerificationFailed"}
    PROVE  Settled(r, effect) \in RunType
  BY DEF Settled, RunType, RunStatus, Evidence, ChainConstants

\* A proposal becomes a run, or the request ends.
LEMMA ProposeShape ==
    ASSUME ChainConstants, TypeInv, NEW t \in Tasks, Propose(t)
    PROVE  Settles \/ (Touches /\ task'[t] = Idle)
  <1> DEFINE p == task[t].pass
             x == First(task[t].todo)
  <1>1. p \in Passes /\ task[t] \in TaskType /\ task[t].todo # {} /\ task \in [Tasks -> TaskType]
    BY BriefOf DEF Propose, At, OfPass, TypeInv
  <1>2. x \in Proposals
    BY <1>1, FirstIsThere DEF TaskType
  <1>3. CASE mode = "FullyFrozen" \/ Closed
    BY <1>1, <1>3, UntouchedTouches DEF Propose, Fail, Set
  <1>4. CASE ~(mode = "FullyFrozen" \/ Closed)
    <2>1. PICK row \in Rows : Reconciled(job, WithRun(p, x, Decided(row)))
      BY <1>4 DEF Propose
    <2>2. WithRun(p, x, Decided(row)) \in RunsType
      BY <1>1, <1>2, DecidedType, RunWrites
    <2> QED
      BY <2>1, <2>2, JobStays, ReconciledSettles
  <1> QED
    BY <1>3, <1>4

\* What a request executes exists.
LEMMA TargetIsThere ==
    ASSUME ChainConstants, TypeInv, NEW t \in Tasks, task[t].pc = "execute"
    PROVE  /\ Target(t)[1] \in Exist /\ Target(t)[1] \in Passes /\ Target(t)[2] \in Proposals
           /\ ~ForOneRun(t) => task[t].pass \in Exist /\ task[t].brief = NoBrief
           /\ ForOneRun(t) => task[t].brief.from \in Exist
  <1>1. task[t] \in TaskType /\ Fits(task[t], Exist) /\ task[t].brief \in BriefType
    BY BriefOf
  <1>2. Exist \subseteq Passes
    BY DEF Exist
  <1>3. CASE ForOneRun(t)
    <2>1. task[t].brief.item # 0 /\ task[t].brief.item \in Items
      BY <1>1, <1>3 DEF ForOneRun, BriefType
    <2>2. task[t].brief.item \in Proposals
      BY <2>1 DEF Items, Proposals, ChainConstants
    <2>3. task[t].brief # NoBrief
      BY <2>1 DEF NoBrief
    <2>4. task[t].brief.from \in Exist
      BY <1>1, <2>3 DEF Fits
    <2>5. Target(t) = <<task[t].brief.from, task[t].brief.item>>
      BY <1>3 DEF Target
    <2> QED
      BY <1>2, <1>3, <2>2, <2>4, <2>5
  <1>4. CASE ~ForOneRun(t)
    <2>1. task[t].pass \in Exist /\ task[t].brief = NoBrief /\ task[t].todo # {}
      BY <1>1, <1>4 DEF Fits, ForOneRun
    <2>2. task[t].todo \in SUBSET Proposals
      BY <1>1 DEF TaskType
    <2>3. First(task[t].todo) \in Proposals
      BY <2>1, <2>2, FirstIsThere
    <2>4. Target(t) = <<task[t].pass, First(task[t].todo)>>
      BY <1>4 DEF Target
    <2> QED
      BY <1>2, <1>4, <2>1, <2>3, <2>4
  <1> QED
    BY <1>3, <1>4

\* An execution settles its run, or writes nothing.
LEMMA ExecuteShape ==
    ASSUME ChainConstants, TypeInv, NEW t \in Tasks, Execute(t)
    PROVE  Settles \/ Touches
  <1> DEFINE p == Target(t)[1]
             x == Target(t)[2]
  <1>1. p \in Passes /\ x \in Proposals
    BY TargetIsThere DEF Execute, At
  <1>2. CASE run[p][x].status # "Ready" \/ mode = "FullyFrozen"
    <2>1. UNCHANGED <<job, run, issue, cut>>
      BY <1>2 DEF Execute
    <2> QED
      BY <2>1, UntouchedTouches
  <1>3. CASE ~(run[p][x].status # "Ready" \/ mode = "FullyFrozen") /\ Closed
    <2>1. UNCHANGED <<job, run, issue, cut>>
      BY <1>3 DEF Execute
    <2> QED
      BY <2>1, UntouchedTouches
  <1>4. CASE ~(run[p][x].status # "Ready" \/ mode = "FullyFrozen") /\ ~Closed
    <2>1. PICK effect \in Effects : \E between :
             ReconciledTwice(between, job, WithRun(p, x, Settled(run[p][x], effect)))
      BY <1>4 DEF Execute
    <2> DEFINE r == Settled(run[p][x], effect)
    <2>2. run[p][x] \in RunType
      BY <1>1, JobStays DEF RunsType
    <2>3. r \in RunType
      BY <2>2, SettledType
    <2> HIDE DEF r
    <2>4. WithRun(p, x, r) \in RunsType
      BY <1>1, <2>3, RunWrites
    <2>5. \E between : ReconciledTwice(between, job, WithRun(p, x, r))
      BY <2>1 DEF r
    <2> QED
      BY <2>4, <2>5, JobStays, ReconciledSettles
  <1> QED
    BY <1>2, <1>3, <1>4

\* A review ends a run that is blocked, and leaves the status of any other.
LEMMA AfterReviewType ==
    ASSUME NEW r \in RunType
    PROVE  /\ AfterReview(r) \in RunType /\ AfterReview(r).reviewed
           /\ AfterReview(r).status = IF r.status = "WaitingForHuman" THEN "Cancelled" ELSE r.status
           /\ AfterReview(r).approval = r.approval
  BY DEF AfterReview, RunType, RunStatus

\* A review is recorded on a pass, whose status stays, or on a run.
LEMMA ReviewWrites ==
    ASSUME TypeInv, NEW p \in Exist, NEW item \in Items, NeedsReview(p, item)
    PROVE  /\ JobReviewed(p, item) \in JobsType /\ RunReviewed(p, item) \in RunsType
           /\ \A q \in Passes : Ordinary(job[q], JobReviewed(p, item)[q])
           /\ Quieter(RunReviewed(p, item))
  <1>1. p \in Passes /\ job[p] \in JobType /\ job \in JobsType /\ run \in RunsType
    BY DEF TypeInv, Exist, JobsType
  <1>2. CASE item = 0
    <2> DEFINE k == [job[p] EXCEPT !.reviewed = TRUE]
    <2>1. k \in JobType /\ Ordinary(job[p], k)
      BY <1>1 DEF JobType, Ordinary, Later
    <2>2. JobReviewed(p, item) = [job EXCEPT ![p] = k] /\ RunReviewed(p, item) = run
      BY <1>2 DEF JobReviewed, RunReviewed
    <2> HIDE DEF k
    <2>3. /\ [job EXCEPT ![p] = k] \in JobsType
          /\ \A q \in Passes : Ordinary(job[q], [job EXCEPT ![p] = k][q])
      BY <1>1, <2>1, WritingOne
    <2> QED
      BY <1>1, <2>2, <2>3 DEF Quieter
  <1>3. CASE item # 0
    <2> DEFINE r == AfterReview(run[p][item])
    <2>1. item \in Proposals
      BY <1>3 DEF NeedsReview, RunsOf
    <2>2. run[p][item] \in RunType
      BY <1>1, <2>1 DEF RunsType
    <2>3. r \in RunType /\ (r.status = run[p][item].status \/ r.status \in RunTerminal)
      BY <2>2, AfterReviewType DEF RunTerminal
    <2>4. JobReviewed(p, item) = job /\ RunReviewed(p, item) = WithRun(p, item, r)
      BY <1>1, <1>3, <2>1 DEF JobReviewed, RunReviewed, WithRun, RunsType
    <2> HIDE DEF r
    <2>5. /\ WithRun(p, item, r) \in RunsType /\ WithRun(p, item, r)[p][item] = r
          /\ \A q \in Passes, y \in Proposals :
                <<q, y>> # <<p, item>> => WithRun(p, item, r)[q][y] = run[q][y]
      BY <1>1, <2>1, <2>3, RunWrites
    <2>6. Quieter(WithRun(p, item, r))
      BY <2>3, <2>5 DEF Quieter
    <2> QED
      BY <2>4, <2>5, <2>6, JobStays
  <1> QED
    BY <1>2, <1>3

\* The review of a run or a pass.
LEMMA ReviewedShape ==
    ASSUME TypeInv, NEW p \in Exist, NEW item \in Items, NeedsReview(p, item), Reviewed(p, item)
    PROVE  Settles
  BY ReviewWrites, ReconciledSettles DEF Reviewed

\* A human's decision on a held run.
LEMMA DecisionWrites ==
    ASSUME TypeInv, NEW p \in Exist, NEW x \in RunsOf(p)
    PROVE  /\ WithApproval(p, x) \in RunsType /\ WithRejection(p, x) \in RunsType
           /\ Quieter(WithRejection(p, x))
  <1>1. p \in Passes /\ x \in Proposals /\ run \in RunsType
    BY DEF TypeInv, Exist, RunsOf
  <1>2. run[p][x] \in RunType
    BY <1>1 DEF RunsType
  <1> DEFINE r == [run[p][x] EXCEPT !.status = "Ready", !.approval = "Approved"]
             s == [run[p][x] EXCEPT !.status = "Cancelled", !.approval = "Rejected"]
  <1>3. r \in RunType /\ s \in RunType /\ s.status \in RunTerminal
    BY <1>2 DEF RunType, RunStatus, Approval, RunTerminal
  <1>4. WithApproval(p, x) = WithRun(p, x, r) /\ WithRejection(p, x) = WithRun(p, x, s)
    BY <1>1, <1>2 DEF WithApproval, WithRejection, WithRun, RunsType, RunType
  <1> HIDE DEF r, s
  <1>5. /\ WithRun(p, x, r) \in RunsType /\ WithRun(p, x, s) \in RunsType
        /\ WithRun(p, x, s)[p][x] = s
        /\ \A q \in Passes, y \in Proposals :
              <<q, y>> # <<p, x>> => WithRun(p, x, s)[q][y] = run[q][y]
    BY <1>1, <1>3, RunWrites
  <1>6. Quieter(WithRun(p, x, s))
    BY <1>3, <1>5 DEF Quieter
  <1> QED
    BY <1>4, <1>5, <1>6

\* The decision is recorded and the Issue reconciled.
LEMMA DecisionShape ==
    ASSUME TypeInv, NEW p \in Exist, NEW x \in RunsOf(p),
           Reconciled(job, WithApproval(p, x)) \/ Reconciled(job, WithRejection(p, x))
    PROVE  Settles
  BY DecisionWrites, JobStays, ReconciledSettles

\* Writing the records as they are.
LEMMA SameRecordsSettle ==
    ASSUME TypeInv, NEW status \in IssueStatus \cup {"Absent"}, Closed => status \in IssueTerminal,
           Commit(job, run, status) \/ CommitCutOff(job, run, status)
    PROVE  Settles
  BY JobStays DEF Settles, Writes

\* A report opens the Issue.
LEMMA ReportShape ==
    ASSUME TypeInv, NEW t \in Tasks, Report(t)
    PROVE  Settles
  <1>1. /\ "Open" # DerivedFrom(job, run) /\ "Open" \notin IssueTerminal
        /\ "Open" \in IssueStatus /\ ~Closed
    BY DerivedIs DEF Report, IssueTerminal, IssueStatus, Closed
  <1>2. cut \in CutType
    BY DEF TypeInv
  <1>3. cut' = [cut EXCEPT !.sweep = @ /\ "Open" \notin IssueTerminal,
                           !.status = @ /\ "Open" # DerivedFrom(job, run)]
    <2>1. cut' = cut
      BY DEF Report
    <2> DEFINE a == "Open" \notin IssueTerminal
               b == "Open" # DerivedFrom(job, run)
    <2>2. a /\ b
      BY <1>1
    <2> HIDE DEF a, b
    <2>3. cut = [cut EXCEPT !.sweep = @ /\ a, !.status = @ /\ b]
      BY <1>2, <2>2 DEF CutType
    <2> QED
      BY <2>1, <2>3 DEF a, b
  <1>4. Commit(job, run, "Open")
    BY <1>1, <1>3 DEF Report, Commit
  <1> QED
    BY <1>1, <1>4, SameRecordsSettle

\* At the end of the proposals the Issue is reconciled.
LEMMA StopShape ==
    ASSUME TypeInv, NEW t \in Tasks, Stop(t)
    PROVE  Settles
  BY JobStays, ReconciledSettles DEF Stop

\* A pass may be cancelled.
LEMMA CancelWrites ==
    ASSUME TypeInv, NEW p \in Exist
    PROVE  /\ WithCancel(p) \in JobsType
           /\ \A q \in Passes : Ordinary(job[q], WithCancel(p)[q])
           /\ WithCancel(p)[p].status # "Running"
  <1>1. p \in Passes /\ job[p] \in JobType /\ job \in JobsType
    BY DEF TypeInv, Exist, JobsType
  <1>2. WithCancel(p)[p].status # "Running"
    BY <1>1 DEF WithCancel, Ended, JobTerminal, JobsType, JobType
  <1>3. CASE Ended(p)
    BY <1>2, <1>3, JobStays DEF WithCancel
  <1>4. CASE ~Ended(p)
    <2>1. LET jobs == [job EXCEPT ![p].status = "Cancelled"]
          IN jobs \in JobsType /\ \A q \in Passes : Ordinary(job[q], jobs[q])
      BY <1>4, EndingTouches DEF JobStatus
    <2> QED
      BY <1>2, <1>4, <2>1 DEF WithCancel
  <1> QED
    BY <1>3, <1>4

\* The guard of a dropped run cancels its pass.
LEMMA AbandonShape ==
    ASSUME TypeInv, NEW t \in Tasks, Abandon(t)
    PROVE  Settles
  <1>1. task[t].pass \in Exist
    BY BriefOf DEF Abandon, At, OfPass
  <1> QED
    BY <1>1, CancelWrites, JobStays, ReconciledSettles DEF Abandon

\* A review is recorded, or the request ends.
LEMMA RecordShape ==
    ASSUME TypeInv, NEW t \in Tasks, Record(t)
    PROVE  Settles \/ (Touches /\ task'[t] = Idle)
  <1> DEFINE b == task[t].brief
  <1>1. b.from \in Exist /\ b.item \in Items /\ task \in [Tasks -> TaskType]
    BY BriefOf DEF Record, At, Fits, BriefType, TypeInv
  <1>2. CASE NeedsReview(b.from, b.item)
    <2>1. Reviewed(b.from, b.item)
      BY <1>2 DEF Record
    <2> QED
      BY <1>1, <1>2, <2>1, ReviewedShape
  <1>3. CASE ~NeedsReview(b.from, b.item)
    BY <1>1, <1>3, UntouchedTouches DEF Record, Fail, Set
  <1> QED
    BY <1>2, <1>3

\* A closing cancels what is left.
LEMMA CloseShape ==
    ASSUME ChainConstants, TypeInv, Close
    PROVE  Settles
  <1>1. PICK outcome \in Closings : Commit(job, run, outcome)
    BY DEF Close, MayClose
  <1>2. outcome \in IssueTerminal /\ outcome \in IssueStatus
    BY DEF ChainConstants, IssueTerminal, IssueStatus
  <1> QED
    BY <1>1, <1>2, SameRecordsSettle

\* A run that is awaiting verification keeps its Issue from ending.
LEMMA VerifyingGoesOn ==
    ASSUME TypeInv, NEW p \in Exist, NEW x \in Proposals, NEW runs \in RunsType,
           runs[p][x].status = "Verifying", ~Closed
    PROVE  Follows(issue, job, runs) \notin IssueTerminal
  <1>1. ASSUME NEW js, NEW rs, NEW done, NEW r \in rs, r.status = "Verifying", js # {}
        PROVE  DerivedIssueStatus(js, rs, done) \in {"Investigating", "Mitigating", "Verifying"}
    BY <1>1 DEF DerivedIssueStatus
  <1> DEFINE there == {q \in Passes : job[q].status # "Absent"}
             acted == {pr \in there \X Proposals : runs[pr[1]][pr[2]].status # "Absent"}
             js == {PassIn(job, runs, q) : q \in there}
             rs == {runs[pr[1]][pr[2]] : pr \in acted}
             done == \E pr \in acted : /\ \A q \in there : q <= pr[1]
                                       /\ IsRemediation(runs[pr[1]][pr[2]], TRUE)
  <1>2. p \in there /\ <<p, x>> \in acted
    BY DEF Exist
  <1>3. js # {} /\ runs[p][x] \in rs
    <2>1. PassIn(job, runs, p) \in js
      BY <1>2
    <2>2. runs[<<p, x>>[1]][<<p, x>>[2]] \in rs
      BY <1>2
    <2> QED
      BY <2>1, <2>2
  <1>4. DerivedFrom(job, runs) = DerivedIssueStatus(js, rs, done)
    BY DEF DerivedFrom
  <1> HIDE DEF js, rs, done
  <1>5. DerivedFrom(job, runs) \in {"Investigating", "Mitigating", "Verifying"}
    BY <1>1, <1>3, <1>4
  <1> QED
    BY <1>5 DEF Follows, IssueTerminal, Closed

\* An execution that is cut off settles what it has written.
LEMMA RunCutInSettles ==
    ASSUME ChainConstants, TypeInv, NEW p \in Exist, NEW x \in Proposals, ~Closed,
           RunCutIn(p, x)
    PROVE  Settles
  <1> DEFINE r == run[p][x]
             begun == Follows(issue, job, WithRun(p, x, Settled(r, "None")))
  <1>1. p \in Passes /\ r \in RunType /\ issue \in IssueStatus \cup {"Absent"}
    BY DEF Exist, TypeInv, RunsType
  <1>2. ASSUME NEW k \in RunType, NEW status \in (IssueStatus \cup {"Absent"}) \ IssueTerminal,
               CutIn(job, WithRun(p, x, k), status)
        PROVE  Settles
    <2>1. WithRun(p, x, k) \in RunsType
      BY <1>1, RunWrites
    <2> QED
      BY <1>2, <2>1, JobStays, CutInSettles
  <1>3. issue \in (IssueStatus \cup {"Absent"}) \ IssueTerminal
    BY <1>1 DEF Closed
  <1>4. \A effect \in Effects \cup {"None"} : Settled(r, effect) \in RunType
    BY <1>1, SettledType
  <1>5. begun \in (IssueStatus \cup {"Absent"}) \ IssueTerminal
    <2> DEFINE k == Settled(r, "None")
    <2>1. k \in RunType /\ k.status = "Verifying"
      BY <1>1, <1>4 DEF Settled, RunType
    <2> HIDE DEF k
    <2>2. WithRun(p, x, k) \in RunsType /\ WithRun(p, x, k)[p][x] = k
      BY <1>1, <2>1, RunWrites
    <2>3. Follows(issue, job, WithRun(p, x, k)) \notin IssueTerminal
      BY <2>1, <2>2, VerifyingGoesOn
    <2>4. Follows(issue, job, WithRun(p, x, k)) \in IssueStatus \cup {"Absent"}
      BY <1>1, FollowsIssue
    <2> QED
      BY <2>3, <2>4 DEF k
  <1>6. [r EXCEPT !.status = "Running"] \in RunType
    BY <1>1 DEF RunType, RunStatus
  <1>7. \A effect \in Effects : Returned(r, effect) \in RunType
    BY <1>4 DEF Returned
  <1>8. \/ CutIn(job, WithRun(p, x, [r EXCEPT !.status = "Running"]), issue)
        \/ \E effect \in Effects : CutIn(job, WithRun(p, x, Returned(r, effect)), issue)
        \/ \E verdict \in Effects \cup {"None"} : CutIn(job, WithRun(p, x, Settled(r, verdict)), begun)
    BY DEF RunCutIn
  <1> HIDE DEF begun, r
  <1> QED
    BY <1>2, <1>3, <1>4, <1>5, <1>6, <1>7, <1>8

\* A request that is cut off settles what it has written.
LEMMA HalfWrittenSettles ==
    ASSUME ChainConstants, TypeInv, NEW t \in Tasks, HalfWritten(t)
    PROVE  Settles
  <1> DEFINE p == task[t].pass
             b == task[t].brief
  <1>1. /\ issue \in IssueStatus \cup {"Absent"} /\ run \in RunsType
        /\ issue \in IssueTerminal => Closed
    BY DEF TypeInv, Closed
  <1>2. Quieter(run)
    BY DEF Quieter
  <1>3. ASSUME NEW jobs \in JobsType, \A q \in Passes : Ordinary(job[q], jobs[q]),
               NEW runs \in RunsType, Closed => Quieter(runs), CutIn(jobs, runs, issue)
        PROVE  Settles
    BY <1>1, <1>3, CutInSettles
  <1>4. task[t].pc \in OfPass => p \in Exist /\ p \in Passes
    BY BriefOf
  <1>5. CASE /\ task[t].pc = "apply" /\ Unchanged(p)
             /\ CutIn(WithResult(p, Clamped(task[t].result)), run, issue)
    <2>1. Clamped(task[t].result) \in ResultType /\ p \in Exist
      BY <1>4, <1>5, BriefOf, ClampedType DEF TaskType, OfPass
    <2> QED
      BY <1>1, <1>2, <1>3, <1>5, <2>1, NotEndedYet, ResultWrites
  <1>6. CASE task[t].pc = "late" /\ MayFail(p) /\ CutIn(WithResult(p, Failure), run, issue)
    <2>1. p \in Exist
      BY <1>4, <1>6 DEF OfPass
    <2> QED
      BY <1>1, <1>2, <1>3, <1>6, <2>1, NotEndedYet, FailureType, ResultWrites
  <1>7. CASE /\ task[t].pc = "propose" /\ task[t].todo # {} /\ ~Closed
             /\ ProposalCutIn(p, First(task[t].todo))
    <2> DEFINE x == First(task[t].todo)
    <2>1. x \in Proposals /\ p \in Passes
      BY <1>4, <1>7, BriefOf, FirstIsThere DEF TaskType, OfPass
    <2>2. NewRun \in RunType
      BY DEF NewRun, NoRun, RunType, RunStatus, Approval, Evidence
    <2>3. PICK r \in RunType : CutIn(job, WithRun(p, x, r), issue)
      BY <1>7, <2>2, DecidedType DEF ProposalCutIn
    <2> HIDE DEF x
    <2>4. WithRun(p, x, r) \in RunsType
      BY <2>1, RunWrites
    <2> QED
      BY <1>3, <1>7, <2>3, <2>4, JobStays
  <1>8. CASE task[t].pc = "propose" /\ CutIn(job, run, issue)
    BY <1>1, <1>2, <1>3, <1>8, JobStays
  <1>9. CASE /\ task[t].pc = "execute" /\ ~Closed
             /\ RunCutIn(Target(t)[1], Target(t)[2])
    BY <1>9, TargetIsThere, RunCutInSettles
  <1>10. CASE /\ task[t].pc = "record" /\ NeedsReview(b.from, b.item)
              /\ CutIn(JobReviewed(b.from, b.item), RunReviewed(b.from, b.item), issue)
    <2>1. b.from \in Exist /\ b.item \in Items
      BY <1>10, BriefOf DEF Fits, BriefType
    <2> QED
      BY <1>3, <1>10, <2>1, ReviewWrites
  <1>11. CASE task[t].pc = "abandon" /\ CutIn(WithCancel(p), run, issue)
    <2>1. p \in Exist
      BY <1>4, <1>11 DEF OfPass
    <2> QED
      BY <1>1, <1>2, <1>3, <1>11, <2>1, CancelWrites
  <1> QED
    BY <1>5, <1>6, <1>7, <1>8, <1>9, <1>10, <1>11 DEF HalfWritten

\* So does a decision, and a closure, that is cut off.
LEMMA DecisionInterruptedShape ==
    ASSUME ChainConstants, TypeInv, DecisionInterrupted
    PROVE  Settles
  <1>1. /\ issue \in IssueStatus \cup {"Absent"} /\ run \in RunsType
        /\ issue \in IssueTerminal => Closed
    BY DEF TypeInv, Closed
  <1>2. ASSUME NEW p \in Exist, NEW x \in RunsOf(p),
               \/ ~Closed /\ CutIn(job, WithApproval(p, x), issue)
               \/ CutIn(job, WithRejection(p, x), issue)
        PROVE  Settles
    BY <1>1, <1>2, DecisionWrites, JobStays, CutInSettles
  <1>3. ASSUME NEW p \in Exist, NEW item \in Items, NeedsReview(p, item),
               CutIn(JobReviewed(p, item), RunReviewed(p, item), issue)
        PROVE  Settles
    BY <1>1, <1>3, ReviewWrites, CutInSettles
  <1>4. ASSUME NEW outcome \in Closings, CommitCutOff(job, run, outcome)
        PROVE  Settles
    <2>1. outcome \in IssueTerminal /\ outcome \in IssueStatus
      BY DEF ChainConstants, IssueTerminal, IssueStatus
    <2> QED
      BY <1>4, <2>1, SameRecordsSettle
  <1> QED
    BY <1>2, <1>3, <1>4 DEF DecisionInterrupted

\* What a restart makes of the passes it finds.
LEMMA InterruptedPasses ==
    ASSUME NEW jobs \in JobsType
    PROVE  /\ Interrupted(jobs) \in JobsType
           /\ \A p \in Passes : /\ Ordinary(jobs[p], Interrupted(jobs)[p])
                                /\ Interrupted(jobs)[p].status # "Running"
  <1>1. ASSUME NEW p \in Passes
        PROVE  /\ Interrupted(jobs)[p] \in JobType /\ Ordinary(jobs[p], Interrupted(jobs)[p])
               /\ Interrupted(jobs)[p].status # "Running"
    <2>1. jobs[p] \in JobType
      BY DEF JobsType
    <2> DEFINE k == [jobs[p] EXCEPT !.status = "Failed", !.outcome = "Failed"]
    <2>2. CASE jobs[p].status \in {"Queued", "Running"}
      <3>1. k \in JobType /\ k.status = "Failed" /\ Ordinary(jobs[p], k)
        BY <2>1, <2>2 DEF JobType, JobStatus, JobOutcome, JobTerminal, Ordinary, Later
      <3>2. Interrupted(jobs)[p] = k
        BY <2>2 DEF Interrupted
      <3> QED
        BY <3>1, <3>2
    <2>3. CASE jobs[p].status \notin {"Queued", "Running"}
      BY <2>1, <2>3, OrdinaryReflexive DEF Interrupted
    <2> QED
      BY <2>2, <2>3
  <1> QED
    BY <1>1 DEF Interrupted, JobsType

\* Reviews found at a restart are added to passes, and change nothing else.
LEMMA ReviewedPasses ==
    ASSUME NEW jobs \in JobsType
    PROVE  /\ WithReviews(jobs) \in JobsType
           /\ \A p \in Passes : /\ Ordinary(jobs[p], WithReviews(jobs)[p])
                                /\ WithReviews(jobs)[p].status = jobs[p].status
  <1>1. ASSUME NEW p \in Passes
        PROVE  /\ WithReviews(jobs)[p] \in JobType /\ Ordinary(jobs[p], WithReviews(jobs)[p])
               /\ WithReviews(jobs)[p].status = jobs[p].status
    <2>1. jobs[p] \in JobType
      BY DEF JobsType
    <2> DEFINE b == jobs[p].reviewed \/ (JobNeedsReview(jobs[p]) /\ SentBack(jobs, p, 0))
    <2>2. b \in BOOLEAN /\ WithReviews(jobs)[p] = [jobs[p] EXCEPT !.reviewed = b]
      BY DEF WithReviews
    <2> HIDE DEF b
    <2> QED
      BY <2>1, <2>2 DEF JobType, Ordinary, Later
  <1> QED
    BY <1>1 DEF WithReviews, JobsType

\* Reviews found at a restart are added to runs.
LEMMA ReviewedRunsType ==
    ASSUME NEW jobs, NEW runs \in RunsType
    PROVE  RunsWithReviews(jobs, runs) \in RunsType
  <1>1. ASSUME NEW p \in Passes, NEW x \in Proposals
        PROVE  RunsWithReviews(jobs, runs)[p][x] \in RunType
    <2>1. runs[p][x] \in RunType
      BY DEF RunsType
    <2>2. RunsWithReviews(jobs, runs)[p][x] \in {runs[p][x], AfterReview(runs[p][x])}
      BY DEF RunsWithReviews
    <2> QED
      BY <2>1, <2>2, AfterReviewType
  <1> QED
    BY <1>1 DEF RunsWithReviews, RunsType

\* What a restart makes of the runs it finds.
LEMMA InterruptedRunsType ==
    ASSUME ChainConstants, NEW runs \in RunsType, NEW effect \in [Passes -> [Proposals -> Verdicts]]
    PROVE  InterruptedRuns(runs, effect) \in RunsType
  <1>1. ASSUME NEW r \in RunType, NEW verdict \in Verdicts PROVE Resettled(r, verdict) \in RunType
    <2>1. Settled(r, "Failed") \in RunType /\ Settled(r, verdict) \in RunType
      BY SettledType DEF Verdicts
    <2>2. [r EXCEPT !.status = "Cancelled", !.approval = "Rejected"] \in RunType
      BY DEF RunType, RunStatus, Approval
    <2> QED
      BY <2>1, <2>2 DEF Resettled
  <1>2. \A p \in Passes, x \in Proposals : runs[p][x] \in RunType /\ effect[p][x] \in Verdicts
    BY DEF RunsType
  <1>3. \A p \in Passes, x \in Proposals : Resettled(runs[p][x], effect[p][x]) \in RunType
    BY <1>1, <1>2
  <1> QED
    BY <1>3 DEF InterruptedRuns, RunsType

\* After a restart no pass runs.
LEMMA RecoverShape ==
    ASSUME ChainConstants, TypeInv, Recover
    PROVE  Settles /\ \A p \in Passes : job'[p].status # "Running"
  <1> DEFINE found == IF Closed THEN CancelledJobs(job, Passes) ELSE job
             jobs == Interrupted(found)
             left == IF Closed THEN CancelledRuns(run, Passes \X Proposals) ELSE run
  <1>1. job \in JobsType /\ run \in RunsType
    BY DEF TypeInv
  <1>2. /\ found \in JobsType /\ left \in RunsType
        /\ \A p \in Passes : Ordinary(job[p], found[p])
    BY <1>1, CancelledRecords, JobStays
  <1>3. PICK effect \in [Passes -> [Proposals -> Verdicts]] :
           Reconciled(WithReviews(jobs), RunsWithReviews(jobs, InterruptedRuns(left, effect)))
    BY DEF Recover
  <1> DEFINE runs == InterruptedRuns(left, effect)
  <1> HIDE DEF found, left
  <1>4. /\ jobs \in JobsType
        /\ \A p \in Passes : Ordinary(found[p], jobs[p]) /\ jobs[p].status # "Running"
    BY <1>2, InterruptedPasses
  <1>10. runs \in RunsType
    BY <1>2, InterruptedRunsType
  <1> HIDE DEF jobs, runs
  <1> DEFINE last == WithReviews(jobs)
             lastRuns == RunsWithReviews(jobs, runs)
  <1>5. /\ last \in JobsType /\ lastRuns \in RunsType
        /\ \A p \in Passes : Ordinary(jobs[p], last[p]) /\ last[p].status # "Running"
    BY <1>4, <1>10, ReviewedPasses, ReviewedRunsType
  <1> HIDE DEF last, lastRuns
  <1>6. ASSUME NEW p \in Passes PROVE Ordinary(job[p], last[p])
    <2>1. job[p] \in JobType /\ found[p] \in JobType /\ jobs[p] \in JobType /\ last[p] \in JobType
      BY <1>1, <1>2, <1>4, <1>5 DEF JobsType
    <2>2. Ordinary(job[p], found[p]) /\ Ordinary(found[p], jobs[p]) /\ Ordinary(jobs[p], last[p])
      BY <1>2, <1>4, <1>5
    <2>3. Ordinary(job[p], jobs[p])
      BY <2>1, <2>2, OrdinaryTransitive
    <2> QED
      BY <2>1, <2>2, <2>3, OrdinaryTransitive
  <1>7. Reconciled(last, lastRuns)
    BY <1>3 DEF last, lastRuns, runs
  <1>8. Settles
    BY <1>5, <1>6, <1>7, ReconciledSettles
  <1>9. \A p \in Passes : job'[p].status # "Running"
    <2>1. job' = last \/ job' = CancelledJobs(last, Passes)
      BY <1>7 DEF Reconciled, Commit
    <2>2. ASSUME NEW p \in Passes PROVE CancelledJobs(last, Passes)[p].status # "Running"
      <3>1. Ordinary(last[p], CancelledJobs(last, Passes)[p]) /\ last[p].status # "Running"
        BY <1>5, CancelledRecords
      <3> QED
        BY <3>1 DEF Ordinary, Later
    <2> QED
      BY <1>5, <2>1, <2>2
  <1> QED
    BY <1>8, <1>9

\* A dropped request, or one that fails, gives up at most the pass it was recording the end of.
LEMMA DropShape ==
    ASSUME TypeInv, NEW t \in Tasks, Drop(t)
    PROVE  Touches
  <1> DEFINE lost == IF Losing(t) THEN cut.lost \cup {task[t].pass} ELSE cut.lost
  <1>1. Losing(t) => task[t].pass \in Passes
    BY BriefOf DEF Losing, OfPass
  <1>2. cut \in CutType /\ lost \in SUBSET Passes
    BY <1>1 DEF TypeInv, CutType
  <1>3. UNCHANGED <<job, run, issue>> /\ cut' = [cut EXCEPT !.lost = lost]
    BY DEF Drop
  <1>4. cut.lost \subseteq lost
    OBVIOUS
  <1> HIDE DEF lost
  <1>5. GivesUp
    BY <1>2, <1>3, <1>4 DEF GivesUp
  <1> QED
    BY <1>3, <1>5, JobStays DEF Touches

-----------------------------------------------------------------------------
(* Any step. *)

Creates(t) == (Create(t) \/ CreateInterrupted(t)) /\ Adds(task[t].brief)

Supersedes(t) ==
    /\ Supersede(t) /\ Adds(Probe(task[t].pass))
    /\ ~Ended(task[t].pass) /\ job'[task[t].pass].status = "Superseded"
    /\ task[t].pass # NextPass

\* Every step settles, touches, begins a Team, or adds a pass.
LEMMA NextShape ==
    ASSUME ChainConstants, TypeInv, [Next]_vars
    PROVE  \/ Settles \/ Touches
           \/ \E t \in Tasks : Run(t) /\ Begins(task[t].pass)
           \/ \E t \in Tasks : Creates(t) \/ Supersedes(t)
  <1> DEFINE Shapes == \/ Settles \/ Touches
                       \/ \E t \in Tasks : Run(t) /\ Begins(task[t].pass)
                       \/ \E t \in Tasks : Creates(t) \/ Supersedes(t)
  <1>1. ASSUME NEW t \in Tasks, Step(t) PROVE Shapes
    <2>1. CASE Create(t) \/ CreateInterrupted(t)
      BY <2>1, CreateShape DEF Creates
    <2>2. CASE Run(t)
      BY <2>2, RunShape
    <2>3. CASE Deliver(t) \/ Apply(t) \/ Fallback(t) \/ Late(t) \/ Drive(t)
      BY <2>3, DeliverShape, ApplyShape, FallbackShape, LateShape, DriveShape
    <2>4. CASE Supersede(t) \/ SupersedeInterrupted(t)
      BY <2>4, SupersedeShape, SupersedeInterruptedShape DEF Supersedes
    <2>5. CASE Propose(t) \/ Execute(t) \/ Stop(t)
      BY <2>5, ProposeShape, ExecuteShape, StopShape
    <2>6. CASE TeamFails(t) \/ FollowUp(t) \/ Drain(t)
      BY <2>6, UntouchedTouches DEF TeamFails, FollowUp, Drain
    <2>7. CASE Record(t) \/ Abandon(t)
      BY <2>7, RecordShape, AbandonShape
    <2>8. CASE WriteInterrupted(t)
      BY <2>8, HalfWrittenSettles DEF WriteInterrupted
    <2> HIDE DEF Shapes
    <2> QED
      BY <1>1, <2>1, <2>2, <2>3, <2>4, <2>5, <2>6, <2>7, <2>8 DEF Step
  <1>2. ASSUME NEW t \in Tasks, Human(t) PROVE Shapes
    <2>1. CASE Report(t)
      BY <2>1, ReportShape
    <2>2. CASE Approve(t)
      BY <2>2, DecisionShape DEF Approve
    <2>3. CASE SendUpstream(t) \/ Comment(t) \/ Resume(t)
      BY <2>3, UntouchedTouches DEF SendUpstream, Comment, Resume
    <2> HIDE DEF Shapes
    <2> QED
      BY <1>2, <2>1, <2>2, <2>3 DEF Human
  <1>3. ASSUME Reject PROVE Shapes
    BY <1>3, DecisionShape DEF Reject
  <1>4. ASSUME Acknowledge PROVE Shapes
    BY <1>4, ReviewedShape DEF Acknowledge
  <1>5. ASSUME Close \/ Recover \/ DecisionInterrupted PROVE Shapes
    BY <1>5, CloseShape, RecoverShape, DecisionInterruptedShape
  <1>6. ASSUME Freeze \/ Crash \/ (\E t \in Tasks : Drop(t)) \/ UNCHANGED vars PROVE Shapes
    BY <1>6, UntouchedTouches, DropShape DEF Freeze, Crash, vars
  <1> HIDE DEF Shapes
  <1>7. Shapes
    BY <1>1, <1>2, <1>3, <1>4, <1>5, <1>6 DEF Next
  <1> QED
    BY <1>7 DEF Shapes

\* The passes that exist go on existing, each a later form of itself, and at most one more does.
Grows(brief) ==
    /\ Adds(brief) /\ NextPass \in Passes /\ NextPass \notin Exist
    /\ Exist' = Exist \cup {NextPass} /\ LatestPass' = NextPass

\* What a brief says when it becomes a pass.
Briefed(b) == b \in BriefType /\ b.from \in Exist \cup {0}

\* What becomes a pass comes from a pass that exists, or from none.
LEMMA BriefsBriefed ==
    ASSUME ChainConstants, TypeInv, NEW t \in Tasks
    PROVE  /\ task[t].pc = "create" => Briefed(task[t].brief)
           /\ task[t].pc = "supersede" => Briefed(Probe(task[t].pass))
  <1>1. task[t].pc = "create" => Briefed(task[t].brief)
    BY BriefOf DEF Fits, Briefed
  <1>2. ASSUME task[t].pc = "supersede" PROVE Briefed(Probe(task[t].pass))
    <2> DEFINE p == task[t].pass
    <2>1. p \in Exist /\ p \in Passes /\ job[p] \in JobType
      BY <1>2, BriefOf DEF OfPass
    <2>2. p <= MaxPasses /\ p \in Nat /\ job[p].budget \in 0 .. MaxAuto - 1 /\ job[p].budget # 0
      BY <1>2, <2>1 DEF TypeInv, Passes, JobType, ChainConstants
    <2>3. Probe(p) \in BriefType /\ Probe(p).from = p
      BY <2>2 DEF Probe, OneLess, BriefType, Whys, Items, ChainConstants
    <2> QED
      BY <2>1, <2>3 DEF Briefed
  <1> QED
    BY <1>1, <1>2

\* A new pass is as its brief says, runs, and has not begun.
LEMMA NewPassFields ==
    ASSUME NEW b \in BriefType
    PROVE  /\ NewPass(b).why = b.why /\ NewPass(b).from = b.from
           /\ NewPass(b).budget = b.budget /\ NewPass(b).item = b.item
           /\ NewPass(b).status = "Running" /\ ~NewPass(b).begun
  BY DEF NewPass, NoPass

\* One more pass, numbered next, that came from an earlier one.
LEMMA AddsGrows ==
    ASSUME ChainConstants, TypeInv, NEW b, Briefed(b), Adds(b)
    PROVE  Grows(b) /\ Numbered' /\ \A p \in Exist' : job'[p].from < p
  <1>1. /\ LatestPass \in 0 .. MaxPasses /\ NextPass = LatestPass + 1 /\ Exist = 1 .. LatestPass
        /\ NextPass \in Passes /\ NextPass \notin Exist /\ NextPass \in Nat /\ MaxPasses \in Nat
    BY NextIsFree DEF TypeInv, Adds, Room, ChainConstants
  <1>2. /\ job'[NextPass].status = "Running" /\ job'[NextPass].from = b.from
    BY NewPassFields DEF Adds, Briefed
  <1>3. \A p \in Passes \ {NextPass} :
           (job'[p].status = "Absent" <=> job[p].status = "Absent") /\ job'[p].from = job[p].from
    BY DEF Adds, Ordinary, Later
  <1>4. Exist' = Exist \cup {NextPass}
    BY <1>1, <1>2, <1>3 DEF Exist
  <1>5. Exist' = 1 .. NextPass
    BY <1>1, <1>4
  <1>6. LatestPass' = NextPass
    BY <1>1, <1>5, Counted DEF LatestPass
  <1>7. Numbered'
    BY <1>5, <1>6 DEF Numbered
  <1>8. ASSUME NEW p \in Exist' PROVE job'[p].from < p
    <2>1. CASE p = NextPass
      <3>1. b.from \in Exist \cup {0}
        BY DEF Briefed
      <3> QED
        BY <1>1, <1>2, <2>1, <3>1
    <2>2. CASE p # NextPass
      <3>1. p \in Exist /\ p \in Passes
        BY <1>4, <2>2 DEF Exist
      <3> QED
        BY <1>3, <2>2, <3>1 DEF TypeInv
    <2> QED
      BY <2>1, <2>2
  <1> QED
    BY <1>1, <1>4, <1>6, <1>7, <1>8 DEF Grows

\* Whatever the step, the records keep their types and their numbers.
LEMMA RecordsStep ==
    ASSUME ChainConstants, TypeInv, [Next]_vars
    PROVE  /\ job' \in JobsType /\ run' \in RunsType /\ issue' \in IssueStatus \cup {"Absent"}
           /\ cut' \in CutType
           /\ Numbered' /\ Exist \subseteq Exist'
           /\ \A p \in Exist' : job'[p].from < p
           /\ \A p \in Exist : Later(job[p], job'[p])
           /\ \/ Exist' = Exist /\ LatestPass' = LatestPass
                 /\ \A p \in Passes : Later(job[p], job'[p])
              \/ \E t \in Tasks : Creates(t) /\ Grows(task[t].brief)
              \/ \E t \in Tasks : Supersedes(t) /\ Grows(Probe(task[t].pass))
  <1>1. /\ job \in JobsType /\ run \in RunsType /\ issue \in IssueStatus \cup {"Absent"}
        /\ cut \in CutType
    BY DEF TypeInv
  <1>2. ASSUME /\ job' \in JobsType
               /\ \A p \in Passes : Later(job[p], job'[p])
        PROVE  /\ Numbered' /\ Exist' = Exist /\ LatestPass' = LatestPass
               /\ \A p \in Exist' : job'[p].from < p
               /\ \A p \in Exist : Later(job[p], job'[p])
    <2>1. Exist' = Exist
      BY <1>2 DEF Exist, Later
    <2>2. LatestPass' = LatestPass
      BY <2>1 DEF LatestPass
    <2>3. \A p \in Exist : p \in Passes /\ job[p].from < p
      BY DEF TypeInv, Exist
    <2> QED
      BY <1>2, <2>1, <2>2, <2>3 DEF TypeInv, Numbered, Later
  <1>3. CASE Settles
    <2>1. PICK jobs \in JobsType, runs \in RunsType, status \in IssueStatus \cup {"Absent"} :
             /\ \A p \in Passes : Ordinary(job[p], jobs[p])
             /\ Writes(jobs, runs, status)
      BY <1>3 DEF Settles
    <2>2. /\ job' \in JobsType /\ run' \in RunsType /\ \A p \in Passes : Ordinary(job[p], job'[p])
          /\ cut' \in CutType /\ issue' \in IssueStatus \cup {"Absent"}
      BY <1>1, <2>1, CommitWrites
    <2> QED
      BY <1>2, <2>2 DEF Ordinary
  <1>4. CASE Touches
    <2>1. cut' \in CutType
      BY <1>1, <1>4 DEF Touches, GivesUp, CutType
    <2> QED
      BY <1>1, <1>2, <1>4, <2>1 DEF Touches, Ordinary
  <1>5. ASSUME NEW t \in Tasks, Run(t), Begins(task[t].pass)
        PROVE  /\ job' \in JobsType /\ run' = run /\ issue' = issue /\ cut' = cut
               /\ \A p \in Passes : Later(job[p], job'[p])
    <2> DEFINE p == task[t].pass
               k == [job[p] EXCEPT !.begun = TRUE]
    <2>1. p \in Passes /\ job[p] \in JobType
      BY <1>5, BriefOf DEF Run, At, OfPass
    <2>2. k \in JobType /\ Later(job[p], k)
      BY <1>5, <2>1 DEF JobType, Later, Begins, Ended
    <2>3. job' = [job EXCEPT ![p] = k] /\ run' = run /\ issue' = issue /\ cut' = cut
      BY <1>5 DEF Begins
    <2> HIDE DEF k
    <2>4. job' \in JobsType /\ job'[p] = k /\ \A q \in Passes \ {p} : job'[q] = job[q]
      BY <1>1, <2>1, <2>2, <2>3 DEF JobsType
    <2>5. ASSUME NEW q \in Passes, q # p PROVE Later(job[q], job'[q])
      <3>1. job'[q] = job[q] /\ job[q] \in JobType
        BY <1>1, <2>4, <2>5 DEF JobsType
      <3> QED
        BY <3>1, OrdinaryReflexive DEF Ordinary
    <2> QED
      BY <2>2, <2>3, <2>4, <2>5
  <1>6. CASE \E t \in Tasks : Run(t) /\ Begins(task[t].pass)
    BY <1>1, <1>2, <1>5, <1>6
  <1>7. ASSUME NEW b, Briefed(b), Adds(b)
        PROVE  /\ Grows(b) /\ Numbered' /\ Exist \subseteq Exist'
               /\ job' \in JobsType /\ run' \in RunsType /\ issue' \in IssueStatus \cup {"Absent"}
               /\ cut' \in CutType
               /\ \A p \in Exist' : job'[p].from < p
               /\ \A p \in Exist : Later(job[p], job'[p])
    <2>1. Grows(b) /\ Numbered' /\ \A p \in Exist' : job'[p].from < p
      BY <1>7, AddsGrows
    <2>2. \A p \in Exist : Later(job[p], job'[p])
      BY <1>7, <2>1 DEF Grows, Adds, Ordinary, Exist
    <2> QED
      BY <1>1, <1>7, <2>1, <2>2 DEF Grows, Adds
  <1>8. ASSUME NEW t \in Tasks, Creates(t)
        PROVE  Adds(task[t].brief) /\ Briefed(task[t].brief)
    BY <1>8, BriefsBriefed DEF Creates, Create, CreateInterrupted, At
  <1>9. ASSUME NEW t \in Tasks, Supersedes(t)
        PROVE  Adds(Probe(task[t].pass)) /\ Briefed(Probe(task[t].pass))
    BY <1>9, BriefsBriefed DEF Supersedes, Supersede, At
  <1>10. CASE \E t \in Tasks : Creates(t) \/ Supersedes(t)
    <2>1. PICK t \in Tasks : Creates(t) \/ Supersedes(t)
      BY <1>10
    <2>2. CASE Creates(t)
      BY <1>7, <1>8, <2>2
    <2>3. CASE Supersedes(t)
      BY <1>7, <1>9, <2>3
    <2> QED
      BY <2>1, <2>2, <2>3
  <1> QED
    BY <1>3, <1>4, <1>6, <1>10, NextShape

-----------------------------------------------------------------------------
(* Where the requests are. *)

\* A request with nothing in hand fits anywhere.
LEMMA IdleFits ==
    ASSUME ChainConstants, NEW there
    PROVE  Idle \in TaskType /\ Fits(Idle, there)
  <1>1. /\ Idle.pc = "idle" /\ Idle.op = "none" /\ Idle.pass = 0 /\ Idle.brief = NoBrief
        /\ Idle.result = NoResult /\ Idle.todo = {} /\ Idle.seen = {} /\ Idle.queue = {}
    BY DEF Idle
  <1>2. NoBrief \in BriefType /\ NoResult \in ResultType
    BY DEF NoBrief, NoResult, BriefType, ResultType, Whys, Items, ChainConstants
  <1>3. Idle \in TaskType
    BY <1>2 DEF Idle, TaskType, ChainConstants
  <1> QED
    BY <1>1, <1>3 DEF Fits, OfPass, Plain

\* A request with nothing in hand is at no pass.
LEMMA IdlePass == Idle.pass = 0 /\ Idle.queue = {}
  BY DEF Idle

\* What fitted goes on fitting when passes are added.
LEMMA FitsOn ==
    ASSUME NEW r, NEW there, NEW more, Fits(r, there), there \subseteq more
    PROVE  Fits(r, more)
  <1>1. there \X Proposals \subseteq more \X Proposals
    OBVIOUS
  <1> QED
    BY <1>1 DEF Fits

\* One request moves; it goes on to supersede its pass only with something left to spend.
Moves(t, r) ==
    /\ r \in TaskType /\ Fits(r, Exist')
    /\ r.pc = "supersede" => r.pass \in Exist /\ job[r.pass].budget # 0
    /\ task' = [task EXCEPT ![t] = r]

\* A step that moves one request keeps every request in its place.
LEMMA MovingOn ==
    ASSUME TypeInv, Exist \subseteq Exist', NEW t \in Tasks, NEW r, Moves(t, r)
    PROVE  task' \in [Tasks -> TaskType] /\ \A u \in Tasks : Holds(u)'
  <1>1. task \in [Tasks -> TaskType]
    BY DEF TypeInv
  <1>2. task' \in [Tasks -> TaskType] /\ task'[t] = r
        /\ \A u \in Tasks \ {t} : task'[u] = task[u]
    BY <1>1 DEF Moves
  <1>3. ASSUME NEW u \in Tasks, u # t PROVE Fits(task'[u], Exist')
    <2>1. task'[u] = task[u] /\ Fits(task[u], Exist)
      BY <1>2, <1>3 DEF TypeInv, Holds
    <2> QED
      BY <2>1, FitsOn
  <1> QED
    BY <1>2, <1>3 DEF Moves, Holds

\* It goes on with a pass in hand.
LEMMA OnPass ==
    ASSUME NEW r \in TaskType, NEW there, r.pc \in Plain, r.pass \in there, r.brief = NoBrief,
           r.queue \subseteq there \X Proposals
    PROVE  Fits(r, there)
  BY DEF Fits, Plain

\* It goes on to a new pass.
LEMMA OnBrief ==
    ASSUME NEW r \in TaskType, NEW there, r.pc = "create", r.pass \in there \cup {0},
           r.brief.from \in there \/ (r.brief.from = 0 /\ r.brief.why # "review"),
           r.queue \subseteq there \X Proposals
    PROVE  Fits(r, there)
  BY DEF Fits, Plain, OfPass

\* It ends.
LEMMA EndsMove ==
    ASSUME ChainConstants, NEW t \in Tasks, Fail(t)
    PROVE  \E r : Moves(t, r)
  <1>1. Idle.pc # "supersede"
    BY DEF Idle
  <1> QED
    BY <1>1, IdleFits DEF Fail, Set, Moves

\* Its chain ends, and a drain goes on.
LEMMA FinishMoves ==
    ASSUME ChainConstants, TypeInv, Exist \subseteq Exist', NEW t \in Tasks, Finish(t)
    PROVE  \E r : Moves(t, r)
  <1> DEFINE r == [Idle EXCEPT !.op = "resume", !.pc = "drain", !.queue = task[t].queue]
  <1>1. task[t] \in TaskType /\ Fits(task[t], Exist')
    BY BriefOf, FitsOn
  <1>2. task[t].queue \subseteq Exist' \X Proposals /\ task[t].queue \in SUBSET (Passes \X Proposals)
    BY <1>1 DEF Fits, TaskType
  <1>3. /\ r \in TaskType /\ r.pc = "drain" /\ r.op = "resume" /\ r.queue = task[t].queue
        /\ r.pass = 0
    BY <1>2, IdleFits, IdlePass DEF TaskType
  <1> HIDE DEF r
  <1>4. Fits(r, Exist')
    BY <1>2, <1>3 DEF Fits, OfPass, Plain
  <1>5. CASE task[t].op = "resume"
    BY <1>3, <1>4, <1>5 DEF Finish, Set, Moves, r
  <1>6. CASE task[t].op # "resume"
    BY <1>6, EndsMove DEF Finish
  <1> QED
    BY <1>5, <1>6

\* It goes on with its pass, at another place.
LEMMA GotoMoves ==
    ASSUME TypeInv, Exist \subseteq Exist', NEW t \in Tasks, task[t].pc \in Plain,
           NEW pc \in Plain, Goto(t, pc), pc = "supersede" => job[task[t].pass].budget # 0
    PROVE  \E r : Moves(t, r)
  <1> DEFINE r == [task[t] EXCEPT !.pc = pc]
  <1>1. task[t] \in TaskType /\ Fits(task[t], Exist')
    BY BriefOf, FitsOn
  <1>2. task[t].pass \in Exist' /\ task[t].brief = NoBrief /\ task[t].queue \subseteq Exist' \X Proposals
    BY <1>1 DEF Fits, Plain, OfPass
  <1>3. /\ r \in TaskType /\ r.pc = pc /\ r.pass = task[t].pass /\ r.brief = task[t].brief
        /\ r.queue = task[t].queue
    BY <1>1 DEF TaskType, Plain
  <1> HIDE DEF r
  <1>4. Fits(r, Exist')
    BY <1>2, <1>3, OnPass
  <1>5. task[t].pass \in Exist
    BY BriefOf DEF Plain, OfPass
  <1> QED
    BY <1>3, <1>4, <1>5 DEF Goto, Set, Moves, r

\* The pass it was briefed for exists.
LEMMA DispatchMoves ==
    ASSUME ChainConstants, TypeInv, NEW t \in Tasks, Create(t), Exist \subseteq Exist',
           Admits => NextPass \in Exist'
    PROVE  \E r : Moves(t, r)
  <1> DEFINE r == Dispatched(task[t], NextPass)
             s == [task[t] EXCEPT !.pc = "record", !.pass = NextPass]
             u == [task[t] EXCEPT !.pc = "run", !.pass = NextPass, !.brief = NoBrief]
  <1>1. task[t] \in TaskType /\ Fits(task[t], Exist') /\ task[t].pc = "create"
    BY BriefOf, FitsOn DEF Create, At
  <1>2. task[t].queue \subseteq Exist' \X Proposals /\ task[t].brief.from \in Exist' \cup {0}
    BY <1>1 DEF Fits
  <1>3. CASE ~Admits
    BY <1>3, EndsMove DEF Create
  <1>4. CASE Admits /\ task[t].brief.why = "review"
    <2>1. NextPass \in 0 .. MaxPasses /\ NextPass \in Exist'
      BY <1>4 DEF Create, Room, Passes, ChainConstants
    <2>2. /\ s \in TaskType /\ s.pc = "record" /\ s.pass = NextPass /\ s.brief = task[t].brief
          /\ s.queue = task[t].queue
      BY <1>1, <2>1 DEF TaskType
    <2>3. s.brief.from \in Exist'
      BY <1>1, <1>4, <2>2 DEF Fits
    <2>4. task' = [task EXCEPT ![t] = s]
      BY <1>4 DEF Create, Set, Dispatched
    <2> HIDE DEF s
    <2>5. Fits(s, Exist')
      BY <1>2, <2>1, <2>2, <2>3 DEF Fits, Plain
    <2> QED
      BY <2>2, <2>4, <2>5 DEF Moves
  <1>5. CASE Admits /\ task[t].brief.why # "review"
    <2>1. NextPass \in 0 .. MaxPasses /\ NextPass \in Exist'
      BY <1>5 DEF Create, Room, Passes, ChainConstants
    <2>2. NoBrief \in BriefType
      BY IdleFits DEF NoBrief, BriefType, Whys, Items, ChainConstants
    <2>3. /\ u \in TaskType /\ u.pc = "run" /\ u.pass = NextPass /\ u.brief = NoBrief
          /\ u.queue = task[t].queue
      BY <1>1, <2>1, <2>2 DEF TaskType
    <2>4. task' = [task EXCEPT ![t] = u]
      BY <1>5 DEF Create, Set, Dispatched
    <2> HIDE DEF u
    <2>5. Fits(u, Exist')
      BY <1>2, <2>1, <2>3, OnPass DEF Plain
    <2> QED
      BY <2>3, <2>4, <2>5 DEF Moves
  <1> QED
    BY <1>3, <1>4, <1>5

\* A callback takes the request on.
LEMMA DeliverMoves ==
    ASSUME ChainConstants, TypeInv, Exist \subseteq Exist', NEW t \in Tasks, Deliver(t)
    PROVE  \E r : Moves(t, r)
  <1>1. task[t].pc = "team"
    BY DEF Deliver, At
  <1>2. CASE Goto(t, "drive")
    BY <1>1, <1>2, GotoMoves DEF Plain
  <1>3. ASSUME NEW result \in Results,
               Set(t, [task[t] EXCEPT !.pc = "apply", !.result = result])
        PROVE  \E r : Moves(t, r)
    <2> DEFINE r == [task[t] EXCEPT !.pc = "apply", !.result = result]
    <2>1. task[t] \in TaskType /\ Fits(task[t], Exist')
      BY BriefOf, FitsOn
    <2>2. /\ task[t].pass \in Exist' /\ task[t].brief = NoBrief
          /\ task[t].queue \subseteq Exist' \X Proposals
      BY <1>1, <2>1 DEF Fits, Plain, OfPass
    <2>3. result \in ResultType
      BY DEF ChainConstants, ResultType
    <2>4. /\ r \in TaskType /\ r.pc = "apply" /\ r.pass = task[t].pass /\ r.brief = task[t].brief
          /\ r.queue = task[t].queue
      BY <2>1, <2>3 DEF TaskType
    <2>5. task' = [task EXCEPT ![t] = r]
      BY <1>3 DEF Set
    <2> HIDE DEF r
    <2>6. Fits(r, Exist')
      BY <2>2, <2>4, OnPass DEF Plain
    <2> QED
      BY <2>4, <2>5, <2>6 DEF Moves
  <1> QED
    BY <1>2, <1>3 DEF Deliver

\* With its result out of hand a request goes on.
LEMMA ResultMoves ==
    ASSUME ChainConstants, TypeInv, Exist \subseteq Exist', NEW t \in Tasks, task[t].pc = "apply",
           NEW pc \in {"drive", "fallback"}, Set(t, [task[t] EXCEPT !.pc = pc, !.result = NoResult])
    PROVE  \E r : Moves(t, r)
  <1> DEFINE r == [task[t] EXCEPT !.pc = pc, !.result = NoResult]
  <1>1. task[t] \in TaskType /\ Fits(task[t], Exist')
    BY BriefOf, FitsOn
  <1>2. /\ task[t].pass \in Exist' /\ task[t].brief = NoBrief
        /\ task[t].queue \subseteq Exist' \X Proposals
    BY <1>1 DEF Fits, Plain, OfPass
  <1>3. NoResult \in ResultType
    BY DEF NoResult, ResultType, ChainConstants
  <1>4. /\ r \in TaskType /\ r.pc = pc /\ r.pass = task[t].pass /\ r.brief = task[t].brief
        /\ r.queue = task[t].queue
    BY <1>1, <1>3 DEF TaskType
  <1>5. task' = [task EXCEPT ![t] = r]
    BY DEF Set
  <1> HIDE DEF r
  <1>6. Fits(r, Exist')
    BY <1>2, <1>4, OnPass DEF Plain
  <1> QED
    BY <1>4, <1>5, <1>6 DEF Moves

\* A recorded result, and a refused one, take the request on.
LEMMA ApplyMoves ==
    ASSUME ChainConstants, TypeInv, Exist \subseteq Exist', NEW t \in Tasks, Apply(t)
    PROVE  \E r : Moves(t, r)
  <1>1. /\ task[t].pc = "apply"
        /\ \E pc \in {"drive", "fallback"} : Set(t, [task[t] EXCEPT !.pc = pc, !.result = NoResult])
    BY DEF Apply, At
  <1> QED
    BY <1>1, ResultMoves

\* The Team's failure takes the request on, or ends it.
LEMMA FailureMoves ==
    ASSUME ChainConstants, TypeInv, Exist \subseteq Exist', NEW t \in Tasks,
           TeamFails(t) \/ Fallback(t) \/ Late(t)
    PROVE  \E r : Moves(t, r)
  <1>1. /\ task[t].pc \in {"team", "fallback", "late"}
        /\ Fail(t) \/ \E pc \in {"fallback", "late", "drive"} : Goto(t, pc)
    BY DEF TeamFails, Fallback, Late, At
  <1> QED
    BY <1>1, EndsMove, GotoMoves DEF Plain

\* After a pass comes its successor, its proposals or the end.
LEMMA DriveMoves ==
    ASSUME ChainConstants, TypeInv, Exist \subseteq Exist', NEW t \in Tasks, Drive(t)
    PROVE  \E r : Moves(t, r)
  <1> DEFINE p == task[t].pass
             s == [task[t] EXCEPT !.pc = "propose", !.todo = 1 .. job[p].proposes, !.seen = {}]
  <1>1. task[t].pc = "drive" /\ task[t] \in TaskType /\ Fits(task[t], Exist')
    BY BriefOf, FitsOn DEF Drive, At
  <1>2. \/ ~Exhausted(p) /\ Goto(t, "supersede")
        \/ Set(t, s)
        \/ Finish(t)
    BY DEF Drive
  <1>3. CASE ~Exhausted(p) /\ Goto(t, "supersede")
    BY <1>1, <1>3, GotoMoves DEF Plain, Exhausted
  <1>4. CASE Finish(t)
    BY <1>4, FinishMoves
  <1>5. CASE Set(t, s)
    <2>1. /\ p \in Exist' /\ task[t].brief = NoBrief
          /\ task[t].queue \subseteq Exist' \X Proposals
      BY <1>1 DEF Fits, Plain, OfPass
    <2>2. 1 .. job[p].proposes \in SUBSET Proposals
      <3>1. job[p].proposes \in 0 .. MaxProposals
        BY <1>1, BriefOf DEF OfPass, JobType
      <3> QED
        BY <3>1 DEF Proposals, ChainConstants
    <2>3. /\ s \in TaskType /\ s.pc = "propose" /\ s.pass = p /\ s.brief = task[t].brief
          /\ s.queue = task[t].queue
      BY <1>1, <2>2 DEF TaskType
    <2>4. task' = [task EXCEPT ![t] = s]
      BY <1>5 DEF Set
    <2> HIDE DEF s
    <2>5. Fits(s, Exist')
      BY <2>1, <2>3, OnPass DEF Plain
    <2> QED
      BY <2>3, <2>4, <2>5 DEF Moves
  <1> QED
    BY <1>2, <1>3, <1>4, <1>5

\* A superseding request goes on with its new pass.
LEMMA SupersedeMoves ==
    ASSUME ChainConstants, TypeInv, Exist \subseteq Exist', NEW t \in Tasks, Supersede(t),
           NextPass \in Exist' \/ Fail(t)
    PROVE  \E r : Moves(t, r)
  <1> DEFINE s == [task[t] EXCEPT !.pc = "run", !.pass = NextPass]
  <1>1. /\ task[t].pc = "supersede" /\ task[t] \in TaskType /\ Fits(task[t], Exist')
        /\ NextPass \in 0 .. MaxPasses
    BY BriefOf, FitsOn DEF Supersede, At, Room, Passes, ChainConstants
  <1>2. task[t].brief = NoBrief /\ task[t].queue \subseteq Exist' \X Proposals
    BY <1>1 DEF Fits, Plain
  <1>3. /\ s \in TaskType /\ s.pc = "run" /\ s.pass = NextPass /\ s.brief = task[t].brief
        /\ s.queue = task[t].queue
    BY <1>1 DEF TaskType
  <1>4. CASE Fail(t)
    BY <1>4, EndsMove
  <1>5. CASE ~Fail(t)
    <2>1. task' = [task EXCEPT ![t] = s] /\ NextPass \in Exist'
      BY <1>5 DEF Supersede, Set
    <2> HIDE DEF s
    <2>2. Fits(s, Exist')
      BY <1>2, <1>3, <2>1, OnPass DEF Plain
    <2> QED
      BY <1>3, <2>1, <2>2 DEF Moves
  <1> QED
    BY <1>4, <1>5

\* A proposal takes the request on.
LEMMA ProposeMoves ==
    ASSUME ChainConstants, TypeInv, Exist \subseteq Exist', NEW t \in Tasks, Propose(t)
    PROVE  \E r : Moves(t, r)
  <1> DEFINE x == First(task[t].todo)
             s == [task[t] EXCEPT !.pc = "execute"]
             u(row) == [task[t] EXCEPT !.todo = @ \ {x}, !.seen = @ \cup {Decided(row).status}]
  <1>1. /\ task[t].pc = "propose" /\ task[t] \in TaskType /\ Fits(task[t], Exist')
        /\ task[t].todo # {}
    BY BriefOf, FitsOn DEF Propose, At
  <1>2. /\ task[t].pass \in Exist' /\ task[t].brief = NoBrief
        /\ task[t].queue \subseteq Exist' \X Proposals
    BY <1>1 DEF Fits, Plain, OfPass
  <1>3. \/ Fail(t) \/ Goto(t, "execute")
        \/ \E row \in Rows : Set(t, u(row))
    BY DEF Propose
  <1>4. CASE Fail(t)
    BY <1>4, EndsMove
  <1>5. CASE Goto(t, "execute")
    <2>1. /\ s \in TaskType /\ s.pc = "execute" /\ s.pass = task[t].pass /\ s.brief = task[t].brief
          /\ s.queue = task[t].queue /\ s.todo = task[t].todo
      BY <1>1 DEF TaskType
    <2>2. task' = [task EXCEPT ![t] = s]
      BY <1>5 DEF Goto, Set
    <2> HIDE DEF s
    <2>3. Fits(s, Exist')
      BY <1>1, <1>2, <2>1 DEF Fits, OfPass, Plain
    <2> QED
      BY <2>1, <2>2, <2>3 DEF Moves
  <1>6. ASSUME NEW row \in Rows, Set(t, u(row)) PROVE \E r : Moves(t, r)
    <2> DEFINE v == u(row)
    <2>1. Decided(row).status \in RunStatus \cup {"Absent"}
      BY DecidedType DEF RunType
    <2>2. /\ v \in TaskType /\ v.pc = "propose" /\ v.pass = task[t].pass
          /\ v.brief = task[t].brief /\ v.queue = task[t].queue
      BY <1>1, <2>1 DEF TaskType
    <2>3. task' = [task EXCEPT ![t] = v]
      BY <1>6 DEF Set
    <2> HIDE DEF v
    <2>4. Fits(v, Exist')
      BY <1>2, <2>2, OnPass DEF Plain
    <2> QED
      BY <2>2, <2>3, <2>4 DEF Moves
  <1> QED
    BY <1>3, <1>4, <1>5, <1>6

\* After the proposals comes a follow-up or the end.
LEMMA StopMoves ==
    ASSUME ChainConstants, TypeInv, Exist \subseteq Exist', NEW t \in Tasks, Stop(t)
    PROVE  \E r : Moves(t, r)
  <1> DEFINE p == task[t].pass
             b == [why |-> "follow", from |-> p, budget |-> OneLess(p), item |-> 0]
             s == [task[t] EXCEPT !.pc = "create", !.seen = {}, !.brief = b]
  <1>1. /\ task[t].pc = "propose" /\ task[t] \in TaskType /\ Fits(task[t], Exist')
        /\ p \in Exist /\ p \in 0 .. MaxPasses /\ job[p] \in JobType
    BY BriefOf, FitsOn DEF Stop, At, OfPass, TaskType
  <1>2. task[t].queue \subseteq Exist' \X Proposals
    BY <1>1 DEF Fits
  <1>3. CASE GoesOn(t)
    <2>1. OneLess(p) \in 0 .. MaxAuto - 1
      BY <1>1, <1>3 DEF OneLess, GoesOn, Exhausted, JobType, ChainConstants
    <2>2. b \in BriefType /\ b.from = p
      BY <1>1, <2>1 DEF BriefType, Whys, Items, ChainConstants
    <2> HIDE DEF b
    <2>3. s \in TaskType /\ s.pc = "create" /\ s.brief = b /\ s.queue = task[t].queue /\ s.pass = p
      BY <1>1, <2>2 DEF TaskType
    <2>4. task' = [task EXCEPT ![t] = s]
      BY <1>3 DEF Stop, Set, b
    <2> HIDE DEF s
    <2>5. /\ s.brief.from \in Exist' /\ s.queue \subseteq Exist' \X Proposals
          /\ s.pass \in Exist' \cup {0}
      BY <1>1, <1>2, <2>2, <2>3
    <2>6. Fits(s, Exist')
      BY <2>3, <2>5, OnBrief
    <2> QED
      BY <2>3, <2>4, <2>6 DEF Moves
  <1>4. CASE ~GoesOn(t)
    BY <1>4, FinishMoves DEF Stop
  <1> QED
    BY <1>3, <1>4

\* A run with a status in hand takes the request on.
LEMMA ExecutedMoves ==
    ASSUME ChainConstants, TypeInv, Exist \subseteq Exist', NEW t \in Tasks,
           task[t].pc = "execute", NEW status \in RunStatus \cup {"Absent"}, Executed(t, status)
    PROVE  \E r : Moves(t, r)
  <1> DEFINE s == [task[t] EXCEPT !.pc = "propose", !.todo = @ \ {First(@)}, !.seen = @ \cup {status}]
             u == [task[t] EXCEPT !.pc = "settled"]
  <1>1. /\ task[t] \in TaskType /\ Fits(task[t], Exist') /\ task \in [Tasks -> TaskType]
    BY BriefOf, FitsOn DEF TypeInv
  <1>2. task[t].queue \subseteq Exist' \X Proposals /\ task[t].pass \in Exist' \cup {0}
    BY <1>1 DEF Fits
  <1>3. CASE ~ForOneRun(t)
    <2>1. task[t].pass \in Exist' /\ task[t].brief = NoBrief
      BY <1>3, TargetIsThere
    <2>2. /\ s \in TaskType /\ s.pc = "propose" /\ s.pass = task[t].pass
          /\ s.brief = task[t].brief /\ s.queue = task[t].queue
      BY <1>1 DEF TaskType
    <2>3. task' = [task EXCEPT ![t] = s]
      BY <1>3 DEF Executed, Set
    <2> HIDE DEF s
    <2>4. Fits(s, Exist')
      BY <1>2, <2>1, <2>2, OnPass DEF Plain
    <2> QED
      BY <2>2, <2>3, <2>4 DEF Moves
  <1>4. CASE ForOneRun(t)
    <2>1. task[t].brief.from \in Exist'
      BY <1>4, TargetIsThere
    <2>2. /\ u \in TaskType /\ u.pc = "settled" /\ u.brief = task[t].brief
          /\ u.queue = task[t].queue /\ u.pass = task[t].pass
      BY <1>1 DEF TaskType
    <2>3. Fail(t) \/ task' = [task EXCEPT ![t] = u]
      BY <1>4 DEF Executed, Goto, Set
    <2> HIDE DEF u
    <2>4. Fits(u, Exist')
      BY <1>2, <2>1, <2>2 DEF Fits, Plain, OfPass
    <2> QED
      BY <2>2, <2>3, <2>4, EndsMove DEF Moves
  <1> QED
    BY <1>3, <1>4

\* An execution takes the request on.
LEMMA ExecuteMoves ==
    ASSUME ChainConstants, TypeInv, Exist \subseteq Exist', NEW t \in Tasks, Execute(t)
    PROVE  \E r : Moves(t, r)
  <1> DEFINE p == Target(t)[1]
             x == Target(t)[2]
  <1>1. task[t].pc = "execute" /\ run[p][x] \in RunType
    BY TargetIsThere, JobStays DEF Execute, At, RunsType
  <1>2. \A effect \in Effects : Settled(run[p][x], effect) \in RunType
    BY <1>1, SettledType
  <1>3. Fail(t) \/ \E status \in RunStatus \cup {"Absent"} : Executed(t, status)
    <2>1. CASE run[p][x].status # "Ready" \/ mode = "FullyFrozen"
      BY <1>1, <2>1 DEF Execute, RunType
    <2>3. CASE Closed /\ ~(run[p][x].status # "Ready" \/ mode = "FullyFrozen")
      BY <2>3 DEF Execute
    <2>2. CASE ~Closed /\ ~(run[p][x].status # "Ready" \/ mode = "FullyFrozen")
      <3>1. PICK effect \in Effects : Executed(t, Settled(run[p][x], effect).status)
        BY <2>2 DEF Execute
      <3>2. Settled(run[p][x], effect).status \in RunStatus \cup {"Absent"}
        BY <1>2 DEF RunType
      <3> QED
        BY <3>1, <3>2
    <2> QED
      BY <2>1, <2>2, <2>3
  <1> QED
    BY <1>1, <1>3, ExecutedMoves, EndsMove

\* After a decision comes a follow-up or the end.
LEMMA FollowUpMoves ==
    ASSUME ChainConstants, TypeInv, Exist \subseteq Exist', NEW t \in Tasks, FollowUp(t)
    PROVE  \E r : Moves(t, r)
  <1> DEFINE p == task[t].brief.from
             b == [why |-> "settled", from |-> p, budget |-> OneLess(p), item |-> 0]
             s == [task[t] EXCEPT !.pc = "create", !.brief = b]
  <1>1. /\ task[t].pc = "settled" /\ task[t] \in TaskType /\ Fits(task[t], Exist')
        /\ task[t].brief \in BriefType /\ Fits(task[t], Exist)
    BY BriefOf, FitsOn DEF FollowUp, At
  <1>2. /\ p \in Exist /\ p \in Exist' /\ p \in 0 .. MaxPasses
        /\ task[t].queue \subseteq Exist' \X Proposals /\ task[t].pass \in Exist' \cup {0}
    BY <1>1 DEF Fits, BriefType
  <1>3. job[p] \in JobType
    BY <1>2 DEF TypeInv, JobsType, Exist
  <1>4. CASE Resumable(p)
    <2>1. OneLess(p) \in 0 .. MaxAuto - 1
      BY <1>3, <1>4 DEF OneLess, Resumable, Exhausted, JobType, ChainConstants
    <2>2. b \in BriefType /\ b.from = p
      BY <1>2, <2>1 DEF BriefType, Whys, Items, ChainConstants
    <2> HIDE DEF b
    <2>3. /\ s \in TaskType /\ s.pc = "create" /\ s.brief = b /\ s.queue = task[t].queue
          /\ s.pass = task[t].pass
      BY <1>1, <2>2 DEF TaskType
    <2>4. task' = [task EXCEPT ![t] = s]
      BY <1>4 DEF FollowUp, Set, b
    <2> HIDE DEF s
    <2>5. /\ s.brief.from \in Exist' /\ s.queue \subseteq Exist' \X Proposals
          /\ s.pass \in Exist' \cup {0}
      BY <1>2, <2>2, <2>3
    <2>6. Fits(s, Exist')
      BY <2>3, <2>5, OnBrief
    <2> QED
      BY <2>3, <2>4, <2>6 DEF Moves
  <1>5. CASE ~Resumable(p)
    BY <1>5, FinishMoves DEF FollowUp
  <1> QED
    BY <1>4, <1>5

\* A recorded review takes the request on.
LEMMA RecordMoves ==
    ASSUME ChainConstants, TypeInv, Exist \subseteq Exist', NEW t \in Tasks, Record(t)
    PROVE  \E r : Moves(t, r)
  <1> DEFINE s == [task[t] EXCEPT !.pc = "run", !.brief = NoBrief]
  <1>1. /\ task[t].pc = "record" /\ task[t] \in TaskType /\ Fits(task[t], Exist')
    BY BriefOf, FitsOn DEF Record, At
  <1>2. task[t].pass \in Exist' /\ task[t].queue \subseteq Exist' \X Proposals
    BY <1>1 DEF Fits, OfPass
  <1>3. NoBrief \in BriefType
    BY DEF NoBrief, BriefType, Whys, Items, ChainConstants
  <1>4. /\ s \in TaskType /\ s.pc = "run" /\ s.pass = task[t].pass /\ s.brief = NoBrief
        /\ s.queue = task[t].queue
    BY <1>1, <1>3 DEF TaskType
  <1>5. Fail(t) \/ task' = [task EXCEPT ![t] = s]
    BY DEF Record, Set
  <1> HIDE DEF s
  <1>6. Fits(s, Exist')
    BY <1>2, <1>4, OnPass DEF Plain
  <1> QED
    BY <1>4, <1>5, <1>6, EndsMove DEF Moves

\* It goes on to execute one given run of a pass.
LEMMA ForRunMoves ==
    ASSUME ChainConstants, TypeInv, Exist \subseteq Exist', NEW t \in Tasks,
           NEW p \in Exist, NEW x \in Proposals,
           NEW base \in TaskType, base.pass \in Exist \cup {0},
           NEW op \in {"approve", "resume"}, NEW queue \in SUBSET (Exist \X Proposals),
           Set(t, [base EXCEPT !.op = op, !.pc = "execute", !.queue = queue,
                               !.brief = [NoBrief EXCEPT !.from = p, !.item = x]])
    PROVE  \E r : Moves(t, r)
  <1> DEFINE b == [NoBrief EXCEPT !.from = p, !.item = x]
             s == [base EXCEPT !.op = op, !.pc = "execute", !.queue = queue, !.brief = b]
  <1>1. /\ p \in 0 .. MaxPasses /\ p \in Passes /\ x \in Items /\ x # 0
        /\ queue \in SUBSET (Passes \X Proposals) /\ queue \subseteq Exist' \X Proposals
    BY DEF Exist, Passes, Proposals, Items, ChainConstants
  <1>2. NoBrief \in BriefType
    BY DEF NoBrief, BriefType, Whys, Items, ChainConstants
  <1>3. b \in BriefType /\ b.from = p /\ b.item = x
    BY <1>1, <1>2 DEF BriefType
  <1>4. task' = [task EXCEPT ![t] = s]
    BY DEF Set
  <1> HIDE DEF b
  <1>5. /\ s \in TaskType /\ s.op = op /\ s.pc = "execute" /\ s.brief = b /\ s.queue = queue
        /\ s.pass = base.pass
    BY <1>1, <1>3 DEF TaskType
  <1> HIDE DEF s
  <1>6. /\ s.brief.from \in Exist' /\ s.brief.item # 0 /\ s.queue \subseteq Exist' \X Proposals
        /\ s.pass \in Exist' \cup {0}
    BY <1>1, <1>3, <1>5
  <1>7. Fits(s, Exist')
    BY <1>5, <1>6 DEF Fits, OfPass, Plain
  <1> QED
    BY <1>4, <1>5, <1>7 DEF Moves

\* A drain takes the next run of its queue.
LEMMA DrainMoves ==
    ASSUME ChainConstants, TypeInv, Exist \subseteq Exist', NEW t \in Tasks, Drain(t)
    PROVE  \E r : Moves(t, r)
  <1>1. /\ task[t] \in TaskType /\ task[t].queue \subseteq Exist \X Proposals
        /\ task[t].op = "resume" /\ task[t].pass \in Exist \cup {0}
    BY BriefOf DEF Fits, Drain, At
  <1>2. CASE task[t].queue = {}
    BY <1>2, EndsMove DEF Drain
  <1>3. CASE task[t].queue # {}
    <2>1. PICK pr \in task[t].queue :
             Set(t, [task[t] EXCEPT !.pc = "execute", !.queue = @ \ {pr},
                                    !.brief = [NoBrief EXCEPT !.from = pr[1], !.item = pr[2]]])
      BY <1>3 DEF Drain
    <2>2. pr[1] \in Exist /\ pr[2] \in Proposals
      BY <1>1, <2>1
    <2> DEFINE b == [NoBrief EXCEPT !.from = pr[1], !.item = pr[2]]
               q == task[t].queue \ {pr}
    <2>3. q \in SUBSET (Exist \X Proposals)
      BY <1>1
    <2>4. [task[t] EXCEPT !.pc = "execute", !.queue = q, !.brief = b]
            = [task[t] EXCEPT !.op = "resume", !.pc = "execute", !.queue = q, !.brief = b]
      BY <1>1 DEF TaskType
    <2>5. Set(t, [task[t] EXCEPT !.op = "resume", !.pc = "execute", !.queue = q, !.brief = b])
      BY <2>1, <2>4
    <2> QED
      BY <1>1, <2>2, <2>3, <2>5, ForRunMoves
  <1> QED
    BY <1>2, <1>3

\* A request that was idle goes on to ask for a pass.
LEMMA AskMoves ==
    ASSUME ChainConstants, Exist \subseteq Exist', NEW t \in Tasks,
           NEW op \in {"report", "review", "comment"}, NEW b \in BriefType,
           b.from \in Exist \/ (b.from = 0 /\ b.why # "review"),
           Set(t, [Idle EXCEPT !.op = op, !.pc = "create", !.brief = b])
    PROVE  \E r : Moves(t, r)
  <1> DEFINE s == [Idle EXCEPT !.op = op, !.pc = "create", !.brief = b]
  <1>1. Idle \in TaskType /\ Idle.queue = {} /\ Idle.pass = 0
    BY IdleFits, IdlePass
  <1>2. s \in TaskType /\ s.pc = "create" /\ s.brief = b /\ s.queue = {} /\ s.pass = 0
    BY <1>1 DEF TaskType
  <1>3. task' = [task EXCEPT ![t] = s]
    BY DEF Set
  <1> HIDE DEF s
  <1>4. /\ s.brief.from \in Exist' \/ (s.brief.from = 0 /\ s.brief.why # "review")
        /\ s.queue \subseteq Exist' \X Proposals /\ s.pass \in Exist' \cup {0}
    BY <1>2
  <1>5. Fits(s, Exist')
    BY <1>2, <1>4, OnBrief
  <1> QED
    BY <1>2, <1>3, <1>5 DEF Moves

\* A report moves one request.
LEMMA ReportMoves ==
    ASSUME ChainConstants, TypeInv, Exist \subseteq Exist', NEW t \in Tasks, Report(t)
    PROVE  UNCHANGED task \/ \E r : Moves(t, r)
  <1> DEFINE b == [NoBrief EXCEPT !.why = "report", !.budget = FreshBudget]
  <1>1. NoBrief \in BriefType /\ NoBrief.from = 0
    BY DEF NoBrief, BriefType, Whys, Items, ChainConstants
  <1>2. FreshBudget \in 0 .. MaxAuto - 1
    BY DEF FreshBudget, ChainConstants
  <1>3. b \in BriefType /\ b.from = 0 /\ b.why = "report"
    BY <1>1, <1>2 DEF BriefType, Whys
  <1>4. UNCHANGED task \/ Set(t, [Idle EXCEPT !.op = "report", !.pc = "create", !.brief = b])
    BY DEF Report
  <1> HIDE DEF b
  <1> QED
    BY <1>3, <1>4, AskMoves

\* An approval moves one request.
LEMMA ApproveMoves ==
    ASSUME ChainConstants, TypeInv, Exist \subseteq Exist', NEW t \in Tasks, Approve(t)
    PROVE  \E r : Moves(t, r)
  <1>1. PICK p \in Exist : \E x \in RunsOf(p) :
           Set(t, [Idle EXCEPT !.op = "approve", !.pc = "execute",
                               !.brief = [NoBrief EXCEPT !.from = p, !.item = x]])
    BY DEF Approve
  <1>2. PICK x \in RunsOf(p) :
           Set(t, [Idle EXCEPT !.op = "approve", !.pc = "execute",
                               !.brief = [NoBrief EXCEPT !.from = p, !.item = x]])
    BY <1>1
  <1> DEFINE b == [NoBrief EXCEPT !.from = p, !.item = x]
             none == {}
  <1>3. x \in Proposals /\ Idle \in TaskType /\ Idle.queue = none /\ Idle.pass = 0
    BY IdleFits, IdlePass DEF RunsOf
  <1>4. [Idle EXCEPT !.op = "approve", !.pc = "execute", !.brief = b]
          = [Idle EXCEPT !.op = "approve", !.pc = "execute", !.queue = none, !.brief = b]
    BY <1>3 DEF TaskType
  <1>5. Set(t, [Idle EXCEPT !.op = "approve", !.pc = "execute", !.queue = none, !.brief = b])
    BY <1>2, <1>4
  <1> QED
    BY <1>3, <1>5, ForRunMoves

\* An item sent upstream moves one request.
LEMMA UpstreamMoves ==
    ASSUME ChainConstants, TypeInv, Exist \subseteq Exist', NEW t \in Tasks, SendUpstream(t)
    PROVE  \E r : Moves(t, r)
  <1>1. PICK p \in Exist, item \in Items :
           Set(t, [Idle EXCEPT !.op = "review", !.pc = "create",
                        !.brief = [why |-> "review", from |-> p, budget |-> FreshBudget,
                                   item |-> item]])
    BY DEF SendUpstream
  <1> DEFINE b == [why |-> "review", from |-> p, budget |-> FreshBudget, item |-> item]
  <1>2. p \in 0 .. MaxPasses /\ FreshBudget \in 0 .. MaxAuto - 1
    BY DEF FreshBudget, ChainConstants, Exist, Passes
  <1>3. b \in BriefType /\ b.from = p
    BY <1>2 DEF BriefType, Whys
  <1>4. Set(t, [Idle EXCEPT !.op = "review", !.pc = "create", !.brief = b])
    BY <1>1
  <1> HIDE DEF b
  <1> QED
    BY <1>3, <1>4, AskMoves

\* A comment moves one request.
LEMMA CommentMoves ==
    ASSUME ChainConstants, TypeInv, Exist \subseteq Exist', NEW t \in Tasks, Comment(t)
    PROVE  \E r : Moves(t, r)
  <1> DEFINE b == [why |-> "comment", from |-> LatestPass, budget |-> FreshBudget, item |-> 0]
  <1>1. LatestPass \in Exist /\ LatestPass \in 0 .. MaxPasses /\ FreshBudget \in 0 .. MaxAuto - 1
    BY NextIsFree DEF Comment, AwaitsInput, FreshBudget, ChainConstants, TypeInv
  <1>2. b \in BriefType /\ b.from = LatestPass
    BY <1>1 DEF BriefType, Whys, Items, ChainConstants
  <1>3. Set(t, [Idle EXCEPT !.op = "comment", !.pc = "create", !.brief = b])
    BY DEF Comment
  <1> HIDE DEF b
  <1> QED
    BY <1>1, <1>2, <1>3, AskMoves

\* A resumed dispatch moves one request.
LEMMA ResumeMoves ==
    ASSUME ChainConstants, TypeInv, Exist \subseteq Exist', NEW t \in Tasks, Resume(t)
    PROVE  \E r : Moves(t, r)
  <1> DEFINE queue == {pr \in Exist \X Proposals : run[pr[1]][pr[2]].status = "Ready"}
             s == [Idle EXCEPT !.op = "resume", !.pc = "drain", !.queue = queue]
  <1>1. Exist \subseteq Passes
    BY DEF Exist
  <1>2. queue \in SUBSET (Passes \X Proposals) /\ queue \subseteq Exist' \X Proposals
    BY <1>1
  <1>3. task' = [task EXCEPT ![t] = IF queue = {} THEN Idle ELSE s]
    BY DEF Resume, Set
  <1> HIDE DEF queue
  <1>4. /\ s \in TaskType /\ s.pc = "drain" /\ s.op = "resume" /\ s.queue = queue
        /\ s.pass = 0
    BY <1>2, IdleFits, IdlePass DEF TaskType
  <1> HIDE DEF s
  <1>5. Fits(s, Exist')
    BY <1>2, <1>4 DEF Fits, OfPass, Plain
  <1>6. CASE queue = {}
    BY <1>3, <1>6, EndsMove DEF Fail, Set
  <1>7. CASE queue # {}
    BY <1>3, <1>4, <1>5, <1>7 DEF Moves
  <1> QED
    BY <1>6, <1>7

\* A dropped request leaves its guard, or nothing.
LEMMA DropMoves ==
    ASSUME ChainConstants, TypeInv, Exist \subseteq Exist', NEW t \in Tasks, Dropped(t)
    PROVE  \E r : Moves(t, r)
  <1> DEFINE s == Abandoning(task[t].pass)
  <1>1. Set(t, Idle) \/ (MayBeGuarded(t) /\ Set(t, s))
    BY DEF Dropped, GuardDropped, MayBeGuarded
  <1>2. CASE MayBeGuarded(t) /\ Set(t, s)
    <2>1. task[t].pass \in Exist' /\ task[t].pass \in 0 .. MaxPasses
      BY <1>2, BriefOf DEF MayBeGuarded, Guarded, OfPass, TaskType
    <2>2. Idle \in TaskType /\ Idle.queue = {}
      BY IdleFits DEF Idle
    <2>3. /\ s \in TaskType /\ s.op = "abandon" /\ s.pc = "abandon"
          /\ s.pass = task[t].pass /\ s.queue = {}
      BY <2>1, <2>2 DEF TaskType, Abandoning
    <2>4. task' = [task EXCEPT ![t] = s]
      BY <1>2 DEF Set
    <2> HIDE DEF s
    <2>5. Fits(s, Exist')
      BY <2>1, <2>3 DEF Fits, OfPass, Plain
    <2> QED
      BY <2>3, <2>4, <2>5 DEF Moves
  <1>3. CASE Set(t, Idle)
    BY <1>3, EndsMove DEF Fail
  <1> QED
    BY <1>1, <1>2, <1>3

\* One that is cut off, or whose Team's call fails, likewise, or everything goes away.
LEMMA CutOffMoves ==
    ASSUME ChainConstants, TypeInv, Exist \subseteq Exist', NEW t \in Tasks,
           CutOff(t) \/ WriteInterrupted(t)
    PROVE  task' = [u \in Tasks |-> Idle] \/ \E r : Moves(t, r)
  <1>1. CASE CutOff(t)
    BY <1>1, DropMoves DEF CutOff, Dies
  <1>2. CASE WriteInterrupted(t) /\ ~CutOff(t)
    <2>1. task[t].pc = "apply" /\ Set(t, [task[t] EXCEPT !.pc = "fallback", !.result = NoResult])
      BY <1>2 DEF WriteInterrupted
    <2> QED
      BY <2>1, ResultMoves
  <1> QED
    BY <1>1, <1>2

\* Whatever the step, at most one request moves, or the controller goes down.
LEMMA NextMoves ==
    ASSUME ChainConstants, TypeInv, [Next]_vars
    PROVE  \/ UNCHANGED task
           \/ task' = [t \in Tasks |-> Idle]
           \/ \E t \in Tasks : \E r : Moves(t, r)
  <1> DEFINE Result == \/ UNCHANGED task
                       \/ task' = [t \in Tasks |-> Idle]
                       \/ \E t \in Tasks : \E r : Moves(t, r)
  <1>1. Exist \subseteq Exist'
    BY RecordsStep
  <1>2. ASSUME NEW t \in Tasks, Create(t) PROVE \E r : Moves(t, r)
    <2>2. CASE Create(t)
      <3>1. Admits => NextPass \in Exist'
        <4>1. ASSUME Admits PROVE NextPass \in Exist'
          <5>1. Briefed(task[t].brief)
            BY <2>2, BriefsBriefed DEF Create, At
          <5>2. job' = Inserted(task[t].brief) /\ Room
            BY <2>2, <4>1 DEF Create
          <5>3. job'[NextPass] = NewPass(task[t].brief) /\ NextPass \in Passes
            BY <5>1, <5>2, Inserting DEF Briefed
          <5> QED
            BY <5>1, <5>3, NewPassFields DEF Exist, Briefed
        <4> QED
          BY <4>1
      <3> QED
        BY <1>1, <2>2, <3>1, DispatchMoves
    <2> QED
      BY <1>2, <2>2
  <1>3. ASSUME NEW t \in Tasks, Supersede(t) PROVE \E r : Moves(t, r)
    <2>2. CASE Supersede(t)
      <3> DEFINE p == task[t].pass
      <3>2. CASE Admits /\ ~Ended(p)
        <4>1. p \in Passes /\ NextPass \in Passes /\ NextPass \notin Exist /\ p \in Exist
          BY <2>2, BriefOf, NextIsFree DEF Supersede, At, OfPass, Room, TypeInv
        <4>2. job'[NextPass].status # "Absent"
          <5>1. Briefed(Probe(p)) /\ Room
            BY <2>2, BriefsBriefed DEF Supersede, At
          <5>2. Inserted(Probe(p)) \in JobsType /\ Inserted(Probe(p))[NextPass] = NewPass(Probe(p))
            BY <5>1, Inserting DEF Briefed
          <5>3. job'[NextPass] = Inserted(Probe(p))[NextPass]
            BY <2>2, <3>2, <4>1, <5>2 DEF Supersede, Superseded, JobsType
          <5> QED
            BY <5>1, <5>2, <5>3, NewPassFields DEF Briefed
        <4>3. NextPass \in Exist'
          BY <4>1, <4>2 DEF Exist
        <4> QED
          BY <1>1, <2>2, <4>3, SupersedeMoves
      <3>3. CASE ~(Admits /\ ~Ended(p))
        BY <2>2, <3>3, EndsMove DEF Supersede
      <3> QED
        BY <3>2, <3>3
    <2> QED
      BY <1>3, <2>2
  <1>11. ASSUME NEW t \in Tasks,
                CreateInterrupted(t) \/ SupersedeInterrupted(t) \/ WriteInterrupted(t)
         PROVE  task' = [u \in Tasks |-> Idle] \/ \E r : Moves(t, r)
    BY <1>1, <1>11, CutOffMoves DEF CreateInterrupted, SupersedeInterrupted
  <1>4. ASSUME NEW t \in Tasks, Run(t) PROVE \E r : Moves(t, r)
    <2>1. task[t].pc \in Plain /\ (Goto(t, "team") \/ Goto(t, "drive"))
      BY <1>4 DEF Run, At, Plain
    <2> QED
      BY <1>1, <2>1, GotoMoves DEF Plain
  <1>5. ASSUME NEW t \in Tasks, Step(t)
        PROVE  task' = [u \in Tasks |-> Idle] \/ \E r : Moves(t, r)
    BY <1>1, <1>2, <1>3, <1>4, <1>5, <1>11, DeliverMoves, ApplyMoves, FailureMoves, DriveMoves,
       ProposeMoves, ExecuteMoves, StopMoves, FollowUpMoves, RecordMoves, DrainMoves, EndsMove
    DEF Step, Abandon
  <1>6. ASSUME NEW t \in Tasks, Human(t) PROVE UNCHANGED task \/ \E r : Moves(t, r)
    BY <1>1, <1>6, ReportMoves, ApproveMoves, UpstreamMoves, CommentMoves, ResumeMoves DEF Human
  <1>7. ASSUME NEW t \in Tasks, Drop(t) PROVE \E r : Moves(t, r)
    BY <1>1, <1>7, DropMoves DEF Drop
  <1>8. ASSUME Reject \/ Acknowledge \/ Close \/ Freeze \/ Recover PROVE UNCHANGED task
    BY <1>8 DEF Reject, Acknowledge, Close, Freeze, Recover
  <1>9. ASSUME Crash \/ DecisionInterrupted
        PROVE  task' = [t \in Tasks |-> Idle] \/ UNCHANGED task
    BY <1>9 DEF Crash, DecisionInterrupted, Dies
  <1>10. ASSUME UNCHANGED vars PROVE UNCHANGED task
    BY <1>10 DEF vars
  <1> QED
    BY <1>5, <1>6, <1>7, <1>8, <1>9, <1>10 DEF Next

\* The types, and the places of requests, are kept by every step.
LEMMA StepTypes ==
    ASSUME ChainConstants, TypeInv, [Next]_vars
    PROVE  TypeInv'
  <1>1. /\ job' \in JobsType /\ run' \in RunsType /\ issue' \in IssueStatus \cup {"Absent"}
        /\ cut' \in CutType /\ Numbered' /\ Exist \subseteq Exist'
        /\ \A p \in Exist' : job'[p].from < p
        /\ \A p \in Exist : Later(job[p], job'[p])
    BY RecordsStep
  <1>2. mode' \in {"Running", "DispatchFrozen", "FullyFrozen"} /\ up' \in BOOLEAN
    <2>1. mode \in {"Running", "DispatchFrozen", "FullyFrozen"} /\ up \in BOOLEAN
      BY DEF TypeInv
    <2>2. ASSUME NEW t \in Tasks, Step(t) \/ Human(t) \/ Drop(t)
          PROVE  mode' \in {mode, "Running"} /\ up' \in {up, FALSE}
      <3>1. CASE CreateInterrupted(t) \/ SupersedeInterrupted(t) \/ WriteInterrupted(t)
        BY <3>1 DEF CreateInterrupted, SupersedeInterrupted, WriteInterrupted, CutOff, Dropped, Dies
      <3>2. CASE Drop(t)
        BY <3>2 DEF Drop, Dropped
      <3>3. CASE ~(CreateInterrupted(t) \/ SupersedeInterrupted(t) \/ WriteInterrupted(t) \/ Drop(t))
        BY <2>2, <3>3 DEF Step, Human, Same, Create, Run, Deliver, TeamFails, Apply, Fallback,
           Late, Drive, Supersede, Propose, Execute, Stop, FollowUp, Record, Drain, Abandon,
           Report, Approve, SendUpstream, Comment, Resume
      <3> QED
        BY <3>1, <3>2, <3>3
    <2>5. CASE DecisionInterrupted
      BY <2>1, <2>5 DEF DecisionInterrupted, Dies
    <2>3. CASE Reject \/ Acknowledge \/ Close \/ UNCHANGED vars
      BY <2>1, <2>3 DEF Reject, Acknowledge, Close, vars
    <2>4. CASE Freeze \/ Crash \/ Recover
      BY <2>1, <2>4 DEF Freeze, Crash, Dies, Recover, ChainConstants
    <2> QED
      BY <2>1, <2>2, <2>3, <2>4, <2>5 DEF Next
  <1>3. \A p \in Exist' : job'[p].from < p
    BY <1>1
  <1> DEFINE Afford == \A t \in Tasks : task'[t].pc = "supersede" => job'[task'[t].pass].budget # 0
  <1>4. ASSUME NEW t \in Tasks, task[t].pc = "supersede" PROVE job'[task[t].pass].budget # 0
    <2>1. task[t].pass \in Exist /\ job[task[t].pass].budget # 0
      BY <1>4, BriefOf DEF TypeInv, OfPass
    <2> QED
      BY <1>1, <2>1 DEF Later
  <1>5. /\ task' \in [Tasks -> TaskType] /\ \A t \in Tasks : Holds(t)'
        /\ Afford
    <2>1. task \in [Tasks -> TaskType]
      BY DEF TypeInv
    <2>2. CASE UNCHANGED task
      <3>1. ASSUME NEW t \in Tasks PROVE Fits(task'[t], Exist')
        BY <1>1, <2>2, FitsOn DEF TypeInv, Holds
      <3> QED
        BY <1>4, <2>1, <2>2, <3>1 DEF Holds
    <2>3. CASE task' = [t \in Tasks |-> Idle]
      <3>1. Idle \in TaskType /\ Fits(Idle, Exist') /\ Idle.pc # "supersede"
        BY IdleFits DEF Idle
      <3> QED
        BY <2>3, <3>1 DEF Holds
    <2>4. ASSUME NEW t \in Tasks, NEW r, Moves(t, r)
          PROVE  /\ task' \in [Tasks -> TaskType] /\ \A u \in Tasks : Holds(u)'
                 /\ Afford
      <3>1. task' \in [Tasks -> TaskType] /\ \A u \in Tasks : Holds(u)'
        BY <1>1, <2>4, MovingOn
      <3>2. task'[t] = r /\ \A u \in Tasks \ {t} : task'[u] = task[u]
        BY <2>1, <2>4 DEF Moves
      <3>3. r.pc = "supersede" => job'[r.pass].budget # 0
        BY <1>1, <2>4 DEF Moves, Later
      <3> QED
        BY <1>4, <3>1, <3>2, <3>3
    <2> QED
      BY <2>2, <2>3, <2>4, NextMoves
  <1> QED
    BY <1>1, <1>2, <1>3, <1>5 DEF TypeInv

\* They hold at first.
LEMMA InitTypes == ChainConstants /\ Init => TypeInv
  <1> SUFFICES ASSUME ChainConstants, Init PROVE TypeInv
    OBVIOUS
  <1>1. NoPass \in JobType /\ NoRun \in RunType
    BY DEF NoPass, NoRun, JobType, RunType, Whys, Items, Approval, Evidence, ChainConstants
  <1>2. NoPass.status = "Absent"
    BY DEF NoPass
  <1>3. Exist = {} /\ job \in JobsType /\ run \in RunsType
    BY <1>1, <1>2 DEF Init, Exist, JobsType, RunsType
  <1>4. Numbered
    BY <1>3, FS_EmptySet DEF Numbered, LatestPass
  <1>5. Idle \in TaskType /\ Fits(Idle, Exist) /\ Idle.pc # "supersede"
    BY IdleFits DEF Idle
  <1>6. cut \in CutType
    BY DEF Init, NothingCut, CutType
  <1> QED
    BY <1>3, <1>4, <1>5, <1>6 DEF Init, TypeInv, Holds

\* Every record of every reachable state is of its type, passes are numbered in order of
\* creation, and each came from an earlier one: job.rs, runner.rs.
THEOREM ChainTyping == Spec => []TypeOK
  <1>1. Init => TypeInv
    BY InitTypes, ChainConstants
  <1>2. TypeInv /\ [Next]_vars => TypeInv'
    BY StepTypes, ChainConstants
  <1>3. TypeInv => TypeOK
    <2> SUFFICES ASSUME TypeInv PROVE TypeOK
      OBVIOUS
    <2>1. \A p \in Exist : p <= LatestPass
      BY NextIsFree, ChainConstants DEF TypeInv
    <2> QED
      BY <2>1 DEF TypeInv, TypeOK, JobsType, JobType, Whys, CutType
  <1> QED
    BY <1>1, <1>2, <1>3, PTL DEF Spec

\* The types, and the places of requests, hold always.
LEMMA Typed == Spec => []TypeInv
  <1>1. Init => TypeInv
    BY InitTypes, ChainConstants
  <1>2. TypeInv /\ [Next]_vars => TypeInv'
    BY StepTypes, ChainConstants
  <1> QED
    BY <1>1, <1>2, PTL DEF Spec

-----------------------------------------------------------------------------
(* What ended stays ended. *)

\* A step leaves a pass that ended as it was, up to its review.
LEMMA EndedStays ==
    ASSUME ChainConstants, TypeInv, [Next]_vars, NEW p \in Passes, Ended(p)
    PROVE  [job'[p] EXCEPT !.reviewed = FALSE] = [job[p] EXCEPT !.reviewed = FALSE]
  <1>1. p \in Exist /\ job[p] \in JobType
    BY DEF Exist, Ended, JobTerminal, TypeInv, JobsType
  <1>2. Later(job[p], job'[p])
    BY <1>1, RecordsStep
  <1>3. PICK b \in BOOLEAN : job'[p] = [job[p] EXCEPT !.reviewed = b]
    BY <1>2 DEF Later, Ended
  <1> QED
    BY <1>1, <1>3 DEF JobType

\* A pass that ended keeps its outcome, its proposals and its status, whatever callback,
\* cancellation, supersession or restart comes later, for any number of passes and requests
\* (handle_callback, cancel_job_record).
THEOREM EndedForGood == Spec => EndedStaysEnded
  <1> DEFINE Body == \A p \in Passes : Ended(p) =>
                       [job'[p] EXCEPT !.reviewed = FALSE] = [job[p] EXCEPT !.reviewed = FALSE]
  <1>1. TypeInv /\ [Next]_vars => [Body]_vars
    BY EndedStays, ChainConstants
  <1> HIDE DEF Body
  <1>2. Spec => [][Body]_vars
    BY <1>1, Typed, PTL DEF Spec
  <1> QED
    BY <1>2 DEF EndedStaysEnded, Body

-----------------------------------------------------------------------------
(* A closed Issue is quiet. *)

\* A pass that ended goes on having ended.
LEMMA EndedOn ==
    ASSUME NEW j \in JobType, NEW k, Later(j, k), j.status \in JobTerminal
    PROVE  k.status \in JobTerminal
  <1>1. PICK b \in BOOLEAN : k = [j EXCEPT !.reviewed = b]
    BY DEF Later
  <1> QED
    BY <1>1 DEF JobType

\* A sweep that goes through leaves nothing.
LEMMA SweptIsQuiet ==
    ASSUME NEW jobs \in JobsType, NEW runs \in RunsType,
           job' = CancelledJobs(jobs, Passes), run' = CancelledRuns(runs, Passes \X Proposals)
    PROVE  QuietInv'
  <1>2. ASSUME NEW p \in Passes, job'[p].status # "Absent" PROVE job'[p].status \in JobTerminal
    <2>1. jobs[p] \in JobType
      BY DEF JobsType
    <2>2. job'[p] = IF jobs[p].status \in JobStatus \ JobTerminal
                    THEN [jobs[p] EXCEPT !.status = "Cancelled"] ELSE jobs[p]
      BY DEF CancelledJobs
    <2> QED
      BY <1>2, <2>1, <2>2 DEF JobType, JobTerminal
  <1>3. ASSUME NEW p \in Passes, NEW x \in Proposals, run'[p][x].status # "Absent"
        PROVE  run'[p][x].status \in RunTerminal \cup {"Running", "Verifying"}
    <2>1. runs[p][x] \in RunType /\ <<p, x>> \in Passes \X Proposals
      BY DEF RunsType
    <2>2. run'[p][x] =
            IF runs[p][x].status \in {"Proposed", "Ready", "WaitingForApproval", "WaitingForHuman"}
            THEN [runs[p][x] EXCEPT !.status = "Cancelled"] ELSE runs[p][x]
      BY <2>1 DEF CancelledRuns
    <2> QED
      BY <1>3, <2>1, <2>2 DEF RunType, RunStatus, RunTerminal
  <1> QED
    BY <1>2, <1>3 DEF QuietInv, Exist, Ended, RunsOf

\* A closed Issue stays quiet through every step.
LEMMA QuietStep ==
    ASSUME ChainConstants, TypeInv, QuietInv, [Next]_vars
    PROVE  QuietInv'
  <1>5. ASSUME \A p \in Passes : Later(job[p], job'[p])
        PROVE  Exist' = Exist /\ \A p \in Exist : Ended(p) => Ended(p)'
    <2>1. Exist' = Exist
      BY <1>5 DEF Exist, Later
    <2>2. \A p \in Exist : p \in Passes /\ job[p] \in JobType
      BY DEF Exist, TypeInv, JobsType
    <2> QED
      BY <1>5, <2>1, <2>2, EndedOn DEF Ended
  <1>1. CASE Settles
    <2>1. PICK jobs \in JobsType, runs \in RunsType, status \in IssueStatus \cup {"Absent"} :
             /\ \A p \in Passes : Ordinary(job[p], jobs[p])
             /\ Writes(jobs, runs, status)
      BY <1>1 DEF Settles
    <2>2. job \in JobsType /\ cut \in CutType
      BY DEF TypeInv
    <2>3. issue' = status /\ \A p \in Passes : Ordinary(job[p], job'[p])
      BY <2>1, <2>2, CommitWrites
    <2>4. CASE status \notin IssueTerminal
      BY <2>3, <2>4 DEF QuietInv, Closed
    <2>5. CASE Commit(jobs, runs, status) /\ status \in IssueTerminal
      BY <2>5, SweptIsQuiet DEF Commit
    <2>6. CASE CommitCutOff(jobs, runs, status)
      <3>1. cut'.sweep = TRUE
        BY <2>2, <2>6 DEF CommitCutOff, CutType
      <3> QED
        BY <3>1 DEF QuietInv
    <2>7. CASE LeftAs(jobs, runs, status) /\ status \in IssueTerminal
      <3>1. cut'.sweep = cut.sweep /\ run' = runs /\ Closed /\ Quieter(runs)
        BY <2>2, <2>7 DEF LeftAs, CutType
      <3>2. Exist' = Exist /\ \A p \in Exist : Ended(p) => Ended(p)'
        BY <1>5, <2>3 DEF Ordinary
      <3>3. ASSUME ~cut.sweep, NEW p \in Exist, NEW x \in Proposals, run'[p][x].status # "Absent"
            PROVE  run'[p][x].status \in RunTerminal \cup {"Running", "Verifying"}
        <4>1. p \in Passes
          BY DEF Exist
        <4>2. run'[p][x].status = run[p][x].status \/ run'[p][x].status \in RunTerminal
          BY <3>1, <4>1 DEF Quieter
        <4> QED
          BY <3>1, <3>3, <4>2 DEF QuietInv, RunsOf
      <3> QED
        BY <3>1, <3>2, <3>3 DEF QuietInv, RunsOf
    <2> QED
      BY <2>1, <2>4, <2>5, <2>6, <2>7 DEF Writes
  <1>2. CASE Touches
    <2>1. run' = run /\ issue' = issue /\ \A p \in Passes : Later(job[p], job'[p])
      BY <1>2 DEF Touches, Ordinary
    <2>2. cut'.sweep = cut.sweep
      BY <1>2 DEF Touches, GivesUp, TypeInv, CutType
    <2> QED
      BY <1>5, <2>1, <2>2 DEF QuietInv, Closed, RunsOf
  <1>3. CASE \E t \in Tasks : Run(t) /\ Begins(task[t].pass)
    BY <1>3 DEF Begins, QuietInv, Closed
  <1>4. CASE \E t \in Tasks : Creates(t) \/ Supersedes(t)
    BY <1>4 DEF Creates, Supersedes, Adds, QuietInv, Closed
  <1> QED
    BY <1>1, <1>2, <1>3, <1>4, NextShape

\* A closed Issue has no pass that still runs and nothing that could still start, whatever
\* was dispatched, superseded or decided while it was being closed, and whatever a restart
\* found; unless its closing was cut off, until it is repeated or the controller restarts
\* (create_job, supersede_job and cancel_issue_work under the lifecycle lock).
THEOREM ClosedIsQuiet == Spec => []ClosedHasNoWork
  <1>1. Init => QuietInv
    BY DEF Init, QuietInv, Closed, IssueTerminal
  <1>2. TypeInv /\ QuietInv /\ [Next]_vars => QuietInv'
    BY QuietStep, ChainConstants
  <1>3. QuietInv => ClosedHasNoWork
    BY DEF QuietInv, ClosedHasNoWork
  <1> QED
    BY <1>1, <1>2, <1>3, Typed, PTL DEF Spec

-----------------------------------------------------------------------------
(* What began is carried. *)

Carrying == {"record", "run", "team", "apply", "fallback", "late", "abandon"}

\* A request that carries no pass stays at its pass or lets go of it.
Elsewhere(t) ==
    /\ task[t].pc \notin Carrying
    /\ task'[t].pass \in {0, task[t].pass} /\ task'[t].pc \notin {"record", "run"}
    /\ \A u \in Tasks \ {t} : task'[u] = task[u]

\* A request with nothing in hand is at no pass, idle.
LEMMA IdlePlace == Idle.pass = 0 /\ Idle.pc = "idle"
  BY DEF Idle

\* A request that ends, or goes on with its queue, is at no pass.
LEMMA FinishElsewhere ==
    ASSUME TypeInv, NEW t \in Tasks, Fail(t) \/ Finish(t)
    PROVE  /\ task'[t].pass = 0 /\ task'[t].pc \in {"idle", "drain"}
           /\ \A u \in Tasks \ {t} : task'[u] = task[u]
  <1> DEFINE s == [Idle EXCEPT !.op = "resume", !.pc = "drain", !.queue = task[t].queue]
  <1>1. task \in [Tasks -> TaskType]
    BY DEF TypeInv
  <1>2. s.pass = 0 /\ s.pc = "drain"
    BY DEF Idle
  <1>3. task'[t] \in {Idle, s} /\ \A u \in Tasks \ {t} : task'[u] = task[u]
    BY <1>1 DEF Fail, Finish, Set
  <1> QED
    BY <1>2, <1>3, IdlePlace

\* A request that is changed in place.
LEMMA SetPlace ==
    ASSUME TypeInv, NEW t \in Tasks, NEW r, Set(t, r)
    PROVE  task'[t] = r /\ \A u \in Tasks \ {t} : task'[u] = task[u]
  BY DEF TypeInv, Set

\* A request that carried nothing and stays at its pass carries nothing.
LEMMA SetElsewhere ==
    ASSUME TypeInv, NEW t \in Tasks, NEW r, Set(t, r), task[t].pc \notin Carrying,
           r.pass \in {0, task[t].pass}, r.pc \notin {"record", "run"}
    PROVE  Elsewhere(t)
  BY SetPlace DEF Elsewhere

\* A request that carried nothing and ends carries nothing.
LEMMA EndElsewhere ==
    ASSUME TypeInv, NEW t \in Tasks, Fail(t) \/ Finish(t), task[t].pc \notin Carrying
    PROVE  Elsewhere(t)
  BY FinishElsewhere DEF Elsewhere

\* Requests that are past the run of their pass carry nothing.
LEMMA StepElsewhere ==
    ASSUME TypeInv, NEW t \in Tasks,
           Drive(t) \/ Propose(t) \/ Execute(t) \/ Stop(t) \/ FollowUp(t) \/ Drain(t)
    PROVE  Elsewhere(t)
  <1>1. task[t] \in TaskType
    BY BriefOf
  <1>2. task[t].pc \notin Carrying
    BY DEF Drive, Propose, Execute, Stop, FollowUp, Drain, At, Carrying
  <1>3. ASSUME NEW pc \in {"supersede", "execute", "settled"}, Goto(t, pc) PROVE Elsewhere(t)
    <2> DEFINE r == [task[t] EXCEPT !.pc = pc]
    <2>1. r.pass = task[t].pass /\ r.pc = pc
      BY <1>1 DEF TaskType
    <2>2. Set(t, r)
      BY <1>3 DEF Goto
    <2> HIDE DEF r
    <2> QED
      BY <1>2, <2>1, <2>2, SetElsewhere
  <1>4. ASSUME NEW todo, NEW seen,
               \/ Set(t, [task[t] EXCEPT !.pc = "propose", !.todo = todo, !.seen = seen])
               \/ Set(t, [task[t] EXCEPT !.todo = todo, !.seen = seen]) /\ task[t].pc = "propose"
        PROVE  Elsewhere(t)
    <2> DEFINE r == [task[t] EXCEPT !.pc = "propose", !.todo = todo, !.seen = seen]
    <2>1. r.pass = task[t].pass /\ r.pc = "propose"
      BY <1>1 DEF TaskType
    <2>2. task[t].pc = "propose" => r = [task[t] EXCEPT !.todo = todo, !.seen = seen]
      BY <1>1 DEF TaskType
    <2>3. Set(t, r)
      BY <1>4, <2>2
    <2> HIDE DEF r
    <2> QED
      BY <1>2, <2>1, <2>3, SetElsewhere
  <1>5. ASSUME NEW seen, NEW b, NEW q, NEW pc \in {"create", "execute"},
               \/ Set(t, [task[t] EXCEPT !.pc = pc, !.seen = seen, !.brief = b])
               \/ Set(t, [task[t] EXCEPT !.pc = pc, !.queue = q, !.brief = b])
               \/ Set(t, [task[t] EXCEPT !.pc = pc, !.brief = b])
        PROVE  Elsewhere(t)
    <2>1. PICK r : /\ Set(t, r)
                   /\ \/ r = [task[t] EXCEPT !.pc = pc, !.seen = seen, !.brief = b]
                      \/ r = [task[t] EXCEPT !.pc = pc, !.queue = q, !.brief = b]
                      \/ r = [task[t] EXCEPT !.pc = pc, !.brief = b]
      BY <1>5
    <2>2. r.pass = task[t].pass /\ r.pc = pc
      BY <1>1, <2>1 DEF TaskType
    <2> QED
      BY <1>2, <2>1, <2>2, SetElsewhere
  <1>6. CASE Drive(t)
    <2>1. \/ Finish(t) \/ Goto(t, "supersede")
          \/ Set(t, [task[t] EXCEPT !.pc = "propose", !.todo = 1 .. job[task[t].pass].proposes,
                                    !.seen = {}])
      BY <1>6 DEF Drive
    <2> QED
      BY <1>2, <1>3, <1>4, <2>1, EndElsewhere
  <1>8. CASE Propose(t)
    <2>1. \/ Fail(t) \/ Goto(t, "execute")
          \/ /\ task[t].pc = "propose"
             /\ \E todo, seen : Set(t, [task[t] EXCEPT !.todo = todo, !.seen = seen])
      <3> DEFINE x == First(task[t].todo)
      <3>1. \/ Fail(t) \/ Goto(t, "execute")
            \/ \E row \in Rows :
                 Set(t, [task[t] EXCEPT !.todo = @ \ {x}, !.seen = @ \cup {Decided(row).status}])
        BY <1>8 DEF Propose
      <3>2. task[t].pc = "propose"
        BY <1>8 DEF Propose, At
      <3> QED
        BY <3>1, <3>2
    <2> QED
      BY <1>2, <1>3, <1>4, <2>1, EndElsewhere
  <1>9. CASE Execute(t)
    <2>1. Fail(t) \/ \E status : Executed(t, status)
      BY <1>9 DEF Execute
    <2>2. \/ Fail(t) \/ Goto(t, "settled")
          \/ \E todo, seen :
               Set(t, [task[t] EXCEPT !.pc = "propose", !.todo = todo, !.seen = seen])
      BY <2>1 DEF Executed
    <2> QED
      BY <1>2, <1>3, <1>4, <2>2, EndElsewhere
  <1>10. CASE Stop(t)
    <2>1. \/ Finish(t)
          \/ \E seen, b : Set(t, [task[t] EXCEPT !.pc = "create", !.seen = seen, !.brief = b])
      BY <1>10 DEF Stop
    <2> QED
      BY <1>2, <1>5, <2>1, EndElsewhere
  <1>11. CASE FollowUp(t)
    <2>1. Finish(t) \/ \E b : Set(t, [task[t] EXCEPT !.pc = "create", !.brief = b])
      BY <1>11 DEF FollowUp
    <2> QED
      BY <1>2, <1>5, <2>1, EndElsewhere
  <1>12. CASE Drain(t)
    <2>1. Fail(t) \/ \E q, b : Set(t, [task[t] EXCEPT !.pc = "execute", !.queue = q, !.brief = b])
      BY <1>12 DEF Drain
    <2> QED
      BY <1>2, <1>5, <2>1, EndElsewhere
  <1> QED
    BY <1>6, <1>8, <1>9, <1>10, <1>11, <1>12

\* A request that begins carries nothing yet.
LEMMA HumanElsewhere ==
    ASSUME ChainConstants, TypeInv, NEW t \in Tasks, Human(t)
    PROVE  Elsewhere(t)
  <1>1. task[t].pc = "idle" /\ task[t].pass = 0
    <2>1. task[t].pc = "idle"
      BY DEF Human, Report, Approve, SendUpstream, Comment, Resume, At
    <2> QED
      BY <2>1, BriefOf, IdlePlace DEF Fits
  <1>2. Idle \in TaskType
    BY IdleFits
  <1>3. CASE Report(t) \/ SendUpstream(t) \/ Comment(t)
    <2>1. \/ UNCHANGED task
          \/ \E op, b : Set(t, [Idle EXCEPT !.op = op, !.pc = "create", !.brief = b])
      BY <1>3 DEF Report, SendUpstream, Comment
    <2>2. CASE UNCHANGED task
      BY <1>1, <2>2 DEF Elsewhere, Carrying
    <2>3. ASSUME NEW op, NEW b, Set(t, [Idle EXCEPT !.op = op, !.pc = "create", !.brief = b])
          PROVE  Elsewhere(t)
      <3>1. /\ task'[t] = [Idle EXCEPT !.op = op, !.pc = "create", !.brief = b]
            /\ \A u \in Tasks \ {t} : task'[u] = task[u]
        BY <2>3, SetPlace
      <3> QED
        BY <1>1, <1>2, <3>1, IdlePlace DEF Elsewhere, Carrying, TaskType
    <2> QED
      BY <2>1, <2>2, <2>3
  <1>4. CASE Approve(t)
    <2>1. PICK b : Set(t, [Idle EXCEPT !.op = "approve", !.pc = "execute", !.brief = b])
      BY <1>4 DEF Approve
    <2>2. /\ task'[t] = [Idle EXCEPT !.op = "approve", !.pc = "execute", !.brief = b]
          /\ \A u \in Tasks \ {t} : task'[u] = task[u]
      BY <2>1, SetPlace
    <2> QED
      BY <1>1, <1>2, <2>2, IdlePlace DEF Elsewhere, Carrying, TaskType
  <1>5. CASE Resume(t)
    <2>1. PICK q : Set(t, IF q = {} THEN Idle
                          ELSE [Idle EXCEPT !.op = "resume", !.pc = "drain", !.queue = q])
      BY <1>5 DEF Resume
    <2>2. /\ task'[t] = IF q = {} THEN Idle
                        ELSE [Idle EXCEPT !.op = "resume", !.pc = "drain", !.queue = q]
          /\ \A u \in Tasks \ {t} : task'[u] = task[u]
      BY <2>1, SetPlace
    <2> QED
      BY <1>1, <1>2, <2>2, IdlePlace DEF Elsewhere, Carrying, TaskType
  <1> QED
    BY <1>3, <1>4, <1>5 DEF Human

\* What a step of a request must do for the invariant: it takes over no pass, and lets go of
\* one that runs only before its Team began, or gives it up.
Leads(t) ==
    /\ \A u \in Tasks \ {t} : task'[u] = task[u]
    /\ task'[t].pass \in {0, task[t].pass}
    /\ task'[t].pc \in {"record", "run"} =>
         task[t].pc \in {"record", "run"} /\ task'[t].pass = task[t].pass
    /\ task[t].pass \in Exist /\ job'[task[t].pass].status = "Running" =>
         \/ task'[t].pass = task[t].pass /\ task'[t].pc \in Carrying
         \/ task'[t].pass = 0 /\ (~job[task[t].pass].begun \/ task[t].pass \in cut'.lost)

\* Passes are neither added nor begun, and none that was given up is taken up again.
LEMMA Ordinarily ==
    ASSUME ChainConstants, TypeInv, Settles \/ Touches
    PROVE  /\ Exist' = Exist /\ \A p \in Passes : Ordinary(job[p], job'[p])
           /\ cut.lost \subseteq cut'.lost
  <1>1. job \in JobsType /\ cut \in CutType
    BY DEF TypeInv
  <1>4. (\A p \in Passes : Ordinary(job[p], job'[p])) /\ cut.lost \subseteq cut'.lost
    <2>1. CASE Settles
      BY <1>1, <2>1, CommitWrites DEF Settles
    <2>2. CASE Touches
      BY <1>1, <2>2 DEF Touches, GivesUp, CutType
    <2> QED
      BY <2>1, <2>2
  <1> QED
    BY <1>4 DEF Exist, Ordinary, Later

\* A step that leads keeps the invariant.
LEMMA LeadsCarry ==
    ASSUME ChainConstants, TypeInv, CarryInv, Settles \/ Touches, up' = up,
           NEW t \in Tasks, Leads(t)
    PROVE  CarryInv'
  <1>1. /\ Exist' = Exist /\ \A p \in Passes : Ordinary(job[p], job'[p])
        /\ cut.lost \subseteq cut'.lost
    BY Ordinarily
  <1>2. \A p \in Passes : job'[p].begun = job[p].begun
                          /\ (job'[p].status = "Running" => job[p].status = "Running")
    BY <1>1 DEF Ordinary, Later
  <1>3. \A u \in Tasks : task[u].pc \in OfPass => task[u].pass \in Exist
    BY BriefOf
  <1>4. Exist \subseteq Passes /\ 0 \notin Exist
    BY DEF Exist, Passes
  <1>5. \A u \in Tasks : task'[u].pc \in {"record", "run"} =>
           task[u].pc \in {"record", "run"} /\ task'[u].pass = task[u].pass
    BY DEF Leads
  <1>6. \A u \in Tasks : task'[u].pc \in {"record", "run"} => ~job'[task'[u].pass].begun
    BY <1>2, <1>3, <1>4, <1>5 DEF CarryInv, OfPass
  <1>7. \A u, v \in Tasks :
           /\ task'[u].pc \in {"record", "run"} /\ task'[v].pc \in {"record", "run"}
           /\ task'[u].pass = task'[v].pass
           => u = v
    BY <1>5 DEF CarryInv
  <1>8. \A u \in Tasks :
           task'[u].pass \in Exist /\ job'[task'[u].pass].status = "Running" =>
              task'[u].pc \in Carrying
    BY <1>2, <1>4 DEF CarryInv, Carrying, Leads
  <1>9. ASSUME up', NEW p \in Exist \ cut'.lost, job'[p].begun, job'[p].status = "Running"
        PROVE  \E u \in Tasks : task'[u].pass = p /\ task'[u].pc # "idle"
    <2>1. job[p].begun /\ job[p].status = "Running" /\ up /\ p \in Exist \ cut.lost
      BY <1>1, <1>2, <1>4, <1>9
    <2>2. PICK u \in Tasks : task[u].pass = p /\ task[u].pc # "idle"
      BY <2>1 DEF CarryInv, BegunIsCarried, Carried
    <2>3. CASE u # t
      BY <2>2, <2>3 DEF Leads
    <2>4. CASE u = t
      BY <1>9, <2>1, <2>2, <2>4 DEF Leads, Carrying
    <2> QED
      BY <2>3, <2>4
  <1> QED
    BY <1>1, <1>6, <1>7, <1>8, <1>9 DEF CarryInv, BegunIsCarried, Carried, Carrying

\* A request that carries nothing has nothing to let go of.
LEMMA ElsewhereLeads ==
    ASSUME ChainConstants, TypeInv, CarryInv, Settles \/ Touches, NEW t \in Tasks, Elsewhere(t)
    PROVE  Leads(t)
  <1>1. \A p \in Passes : job'[p].status = "Running" => job[p].status = "Running"
    BY Ordinarily DEF Ordinary, Later
  <1>2. task[t].pass \in Exist => job[task[t].pass].status # "Running" /\ task[t].pass \in Passes
    BY DEF Elsewhere, CarryInv, Carrying, Exist
  <1> QED
    BY <1>1, <1>2 DEF Leads, Elsewhere

\* A request whose result is delivered keeps its pass, or its pass has ended.
LEMMA DeliverLeads ==
    ASSUME TypeInv, NEW t \in Tasks, Deliver(t)
    PROVE  Leads(t)
  <1> DEFINE p == task[t].pass
  <1>1. p \in Exist /\ p \in Passes /\ job[p] \in JobType /\ job \in JobsType
        /\ task[t] \in TaskType
    BY BriefOf DEF Deliver, At, OfPass, TypeInv
  <1>2. CASE StillWanted(p)
    <2>1. PICK result \in Results : Set(t, [task[t] EXCEPT !.pc = "apply", !.result = result])
      BY <1>2 DEF Deliver
    <2>2. /\ task'[t] = [task[t] EXCEPT !.pc = "apply", !.result = result]
          /\ \A u \in Tasks \ {t} : task'[u] = task[u]
      BY <2>1, SetPlace
    <2>3. task'[t].pc = "apply" /\ task'[t].pass = p
      BY <1>1, <2>2 DEF TaskType
    <2> QED
      BY <2>2, <2>3 DEF Leads, Carrying
  <1>3. CASE ~StillWanted(p)
    <2>1. Set(t, [task[t] EXCEPT !.pc = "drive"])
      BY <1>3 DEF Deliver, Goto
    <2>2. /\ task'[t] = [task[t] EXCEPT !.pc = "drive"]
          /\ \A u \in Tasks \ {t} : task'[u] = task[u]
      BY <2>1, SetPlace
    <2>3. task'[t].pc = "drive" /\ task'[t].pass = p
      BY <1>1, <2>2 DEF TaskType
    <2>4. job'[p].status # "Running"
      <3>1. job' = IF Ended(p) THEN job ELSE [job EXCEPT ![p].status = "Cancelled"]
        BY <1>3 DEF Deliver
      <3> QED
        BY <1>1, <3>1 DEF Ended, JobTerminal, JobsType, JobType
    <2> QED
      BY <2>2, <2>3, <2>4 DEF Leads
  <1> QED
    BY <1>2, <1>3

\* A pass that does not run when its Issue is written does not run once it is.
LEMMA NotRunningOn ==
    ASSUME NEW jobs \in JobsType, NEW p \in Passes, jobs[p].status # "Running",
           job' = jobs \/ \E js : job' = CancelledJobs(jobs, js)
    PROVE  job'[p].status # "Running"
  <1>1. CASE job' = jobs
    BY <1>1
  <1>2. ASSUME NEW js, job' = CancelledJobs(jobs, js) PROVE job'[p].status # "Running"
    <2>1. jobs[p] \in JobType
      BY DEF JobsType
    <2>2. job'[p] \in {jobs[p], [jobs[p] EXCEPT !.status = "Cancelled"]}
      BY <1>2 DEF CancelledJobs
    <2> QED
      BY <2>1, <2>2 DEF JobType
  <1> QED
    BY <1>1, <1>2

\* A request that goes on with its pass, at another place.
LEMMA OnLeads ==
    ASSUME TypeInv, NEW t \in Tasks, NEW pc \in {"fallback", "late", "drive"}, NEW result,
           \/ Goto(t, pc)
           \/ Set(t, [task[t] EXCEPT !.pc = pc, !.result = result]),
           pc # "drive" \/ job'[task[t].pass].status # "Running"
    PROVE  Leads(t)
  <1>1. task[t] \in TaskType
    BY BriefOf
  <1>2. /\ \/ task'[t] = [task[t] EXCEPT !.pc = pc]
           \/ task'[t] = [task[t] EXCEPT !.pc = pc, !.result = result]
        /\ \A u \in Tasks \ {t} : task'[u] = task[u]
    BY SetPlace DEF Goto
  <1>3. task'[t].pc = pc /\ task'[t].pass = task[t].pass
    BY <1>1, <1>2 DEF TaskType
  <1> QED
    BY <1>2, <1>3 DEF Leads, Carrying

\* A request that ends leads, when its pass does not run.
LEMMA EndLeads ==
    ASSUME TypeInv, NEW t \in Tasks, Fail(t), job'[task[t].pass].status # "Running"
    PROVE  Leads(t)
  BY FinishElsewhere DEF Leads

\* A request whose result is recorded lets go of a pass that has ended; one whose result was
\* refused ends its pass yet.
LEMMA ApplyLeads ==
    ASSUME ChainConstants, TypeInv, NEW t \in Tasks, Apply(t)
    PROVE  Leads(t)
  <1> DEFINE p == task[t].pass
             r == Clamped(task[t].result)
  <1>1. p \in Exist /\ p \in Passes /\ r \in ResultType
    BY BriefOf, ClampedType DEF Apply, At, OfPass, Plain, TaskType
  <1>2. CASE Unchanged(p)
    <2>1. /\ Set(t, [task[t] EXCEPT !.pc = "drive", !.result = NoResult])
          /\ \/ job' = WithResult(p, r)
             \/ job' = CancelledJobs(WithResult(p, r), Passes)
      BY <1>2 DEF Apply, Reconciled, Commit
    <2> HIDE DEF r
    <2>2. WithResult(p, r) \in JobsType /\ WithResult(p, r)[p].status # "Running"
      BY <1>1, <1>2, NotEndedYet, ResultWrites
    <2>3. job'[p].status # "Running"
      BY <1>1, <2>1, <2>2, NotRunningOn
    <2> QED
      BY <2>1, <2>3, OnLeads
  <1>3. CASE ~Unchanged(p)
    <2>1. Set(t, [task[t] EXCEPT !.pc = "fallback", !.result = NoResult])
      BY <1>3 DEF Apply
    <2> QED
      BY <2>1, OnLeads
  <1> QED
    BY <1>2, <1>3

\* A request that ends its pass in the Team's place lets go of it once it has ended.
LEMMA FailureLeads ==
    ASSUME ChainConstants, TypeInv, NEW t \in Tasks, TeamFails(t) \/ Fallback(t) \/ Late(t)
    PROVE  Leads(t)
  <1> DEFINE p == task[t].pass
  <1>1. p \in Exist /\ p \in Passes /\ job[p] \in JobType /\ job \in JobsType
    BY BriefOf DEF TeamFails, Fallback, Late, At, OfPass, Plain, TypeInv
  <1>2. CASE TeamFails(t)
    BY <1>2, OnLeads DEF TeamFails
  <1>3. CASE Fallback(t)
    <2>1. CASE Ended(p)
      <3>1. job' = job /\ (Goto(t, "drive") \/ Fail(t))
        BY <1>3, <2>1 DEF Fallback
      <3>2. job'[p].status # "Running"
        BY <2>1, <3>1 DEF Ended, JobTerminal
      <3> QED
        BY <3>1, <3>2, OnLeads, EndLeads
    <2>2. CASE ~Ended(p) /\ Closed
      <3>1. job' = [job EXCEPT ![p].status = "Cancelled"] /\ Fail(t)
        BY <1>3, <2>2 DEF Fallback
      <3>2. job'[p].status # "Running"
        BY <1>1, <3>1 DEF JobsType, JobType
      <3> QED
        BY <3>1, <3>2, EndLeads
    <2>3. CASE ~Ended(p) /\ ~Closed
      <3>1. Goto(t, "late")
        BY <1>3, <2>3 DEF Fallback
      <3> QED
        BY <3>1, OnLeads
    <2> QED
      BY <2>1, <2>2, <2>3
  <1>4. CASE Late(t)
    <2>1. CASE MayFail(p)
      <3>1. /\ Goto(t, "drive")
            /\ \/ job' = WithResult(p, Failure)
               \/ job' = CancelledJobs(WithResult(p, Failure), Passes)
        BY <1>4, <2>1 DEF Late, Reconciled, Commit
      <3>2. WithResult(p, Failure) \in JobsType /\ WithResult(p, Failure)[p].status # "Running"
        BY <1>1, <2>1, NotEndedYet, FailureType, ResultWrites
      <3>3. job'[p].status # "Running"
        BY <1>1, <3>1, <3>2, NotRunningOn
      <3> QED
        BY <3>1, <3>3, OnLeads
    <2>2. CASE ~MayFail(p)
      <3>1. job' = job /\ Fail(t)
        BY <1>4, <2>2 DEF Late
      <3>2. job[p].status # "Running"
        BY <2>2 DEF MayFail, JobNext
      <3> QED
        BY <3>1, <3>2, EndLeads
    <2> QED
      BY <2>1, <2>2
  <1> QED
    BY <1>2, <1>3, <1>4

\* A request that records its review lets go only of a pass that has not begun.
LEMMA RecordLeads ==
    ASSUME TypeInv, CarryInv, NEW t \in Tasks, Record(t)
    PROVE  Leads(t)
  <1> DEFINE p == task[t].pass
             s == [task[t] EXCEPT !.pc = "run", !.brief = NoBrief]
  <1>1. p \in Exist /\ task[t] \in TaskType /\ task[t].pc = "record"
    BY BriefOf DEF Record, At, OfPass
  <1>2. ~job[p].begun
    BY <1>1 DEF CarryInv
  <1>3. CASE Fail(t)
    BY <1>2, <1>3, FinishElsewhere DEF Leads
  <1>4. CASE Set(t, s)
    <2>1. task'[t] = s /\ \A u \in Tasks \ {t} : task'[u] = task[u]
      BY <1>4, SetPlace
    <2>2. s.pc = "run" /\ s.pass = p
      BY <1>1 DEF TaskType
    <2> QED
      BY <1>1, <2>1, <2>2 DEF Leads, Carrying
  <1> QED
    BY <1>3, <1>4 DEF Record

\* A guard lets go of a pass it has cancelled.
LEMMA AbandonLeads ==
    ASSUME ChainConstants, TypeInv, NEW t \in Tasks, Abandon(t)
    PROVE  Leads(t)
  <1> DEFINE p == task[t].pass
  <1>1. p \in Exist /\ p \in Passes
    BY BriefOf DEF Abandon, At, OfPass
  <1>2. job' = WithCancel(p) \/ job' = CancelledJobs(WithCancel(p), Passes)
    BY DEF Abandon, Reconciled, Commit
  <1>3. WithCancel(p) \in JobsType /\ WithCancel(p)[p].status # "Running"
    BY <1>1, CancelWrites
  <1>4. job'[p].status # "Running"
    BY <1>1, <1>2, <1>3, NotRunningOn
  <1> QED
    BY <1>4, EndLeads DEF Abandon

\* A dropped request leaves its pass to its guard, unless the Team had not begun, the pass has
\* ended, or is given up.
LEMMA DroppedLeads ==
    ASSUME ChainConstants, TypeInv, CarryInv, Settles \/ Touches, NEW t \in Tasks, Dropped(t),
           Losing(t) => \/ task[t].pass \in cut'.lost
                        \/ job'[task[t].pass].status # "Running"
    PROVE  Leads(t)
  <1> DEFINE p == task[t].pass
             s == Abandoning(p)
  <1>1. (MayBeGuarded(t) /\ Set(t, s)) \/ (~Guarded(t) /\ Set(t, Idle))
    BY DEF Dropped, GuardDropped, MayBeGuarded
  <1>2. CASE Set(t, s)
    <2>1. task'[t] = s /\ \A u \in Tasks \ {t} : task'[u] = task[u]
      BY <1>2, SetPlace
    <2>2. s.pc = "abandon" /\ s.pass = p
      BY IdleFits DEF TaskType, Abandoning
    <2> HIDE DEF s
    <2> QED
      BY <2>1, <2>2 DEF Leads, Carrying
  <1>3. CASE ~Guarded(t) /\ Set(t, Idle)
    <2>1. /\ task'[t].pass = 0 /\ task'[t].pc = "idle"
          /\ \A u \in Tasks \ {t} : task'[u] = task[u]
      BY <1>3, SetPlace, IdlePlace
    <2>2. ASSUME p \in Exist, job'[p].status = "Running"
          PROVE  ~job[p].begun \/ p \in cut'.lost
      <3>1. job[p].status = "Running"
        BY <2>2, Ordinarily DEF Ordinary, Later, Exist
      <3>2. task[t].pc \in {"record", "run"} \/ Losing(t)
        BY <1>3, <2>2, <3>1 DEF CarryInv, Guarded, Losing
      <3> QED
        BY <2>2, <3>2 DEF CarryInv
    <2> QED
      BY <2>1, <2>2 DEF Leads
  <1> QED
    BY <1>1, <1>2, <1>3

\* What a request has written when it is cut off has ended the pass it was about to let go of.
LEMMA HalfWrittenEnds ==
    ASSUME ChainConstants, TypeInv, NEW t \in Tasks, HalfWritten(t),
           task[t].pc \in {"apply", "fallback", "late", "abandon"}
    PROVE  job'[task[t].pass].status # "Running"
  <1> DEFINE p == task[t].pass
             r == Clamped(task[t].result)
  <1>1. p \in Exist /\ p \in Passes /\ r \in ResultType
    BY BriefOf, ClampedType DEF OfPass, TaskType
  <1>2. ASSUME NEW jobs \in JobsType, jobs[p].status # "Running", CutIn(jobs, run, issue)
        PROVE  job'[p].status # "Running"
    <2>1. job' = jobs \/ \E js : job' = CancelledJobs(jobs, js)
      BY <1>2 DEF CutIn, CommitCutOff
    <2> QED
      BY <1>1, <1>2, <2>1, NotRunningOn
  <1>3. CASE task[t].pc = "apply"
    <2>1. Unchanged(p) /\ CutIn(WithResult(p, r), run, issue)
      BY <1>3 DEF HalfWritten
    <2> HIDE DEF r
    <2>2. WithResult(p, r) \in JobsType /\ WithResult(p, r)[p].status # "Running"
      BY <1>1, <2>1, NotEndedYet, ResultWrites
    <2> QED
      BY <1>2, <2>1, <2>2
  <1>4. CASE task[t].pc = "late"
    <2>1. MayFail(p) /\ CutIn(WithResult(p, Failure), run, issue)
      BY <1>4 DEF HalfWritten
    <2>2. WithResult(p, Failure) \in JobsType /\ WithResult(p, Failure)[p].status # "Running"
      BY <1>1, <2>1, NotEndedYet, FailureType, ResultWrites
    <2> QED
      BY <1>2, <2>1, <2>2
  <1>5. CASE task[t].pc = "abandon"
    <2>1. CutIn(WithCancel(p), run, issue)
      BY <1>5 DEF HalfWritten
    <2>2. WithCancel(p) \in JobsType /\ WithCancel(p)[p].status # "Running"
      BY <1>1, CancelWrites
    <2> QED
      BY <1>2, <2>1, <2>2
  <1>6. task[t].pc # "fallback"
    BY DEF HalfWritten
  <1> QED
    BY <1>3, <1>4, <1>5, <1>6

\* When everything goes away nobody is responsible for anything, and nothing is served.
LEMMA DiesCarries ==
    ASSUME Dies
    PROVE  CarryInv'
  <1>1. /\ ~up' /\ 0 \notin Exist' /\ \A u \in Tasks : task'[u] = Idle
    BY DEF Dies, Exist, Passes
  <1> QED
    BY <1>1, IdlePlace DEF CarryInv, BegunIsCarried

\* A request that finds its pass not wanted any more has cancelled it.
LEMMA RunLeads ==
    ASSUME ChainConstants, TypeInv, NEW t \in Tasks, Run(t), ~StillWanted(task[t].pass)
    PROVE  Leads(t)
  <1> DEFINE p == task[t].pass
  <1>1. p \in Exist /\ p \in Passes /\ job[p] \in JobType /\ job \in JobsType
        /\ task[t] \in TaskType
    BY BriefOf DEF Run, At, OfPass, TypeInv
  <1>2. Set(t, [task[t] EXCEPT !.pc = "drive"])
    BY DEF Run, Goto
  <1>3. /\ task'[t] = [task[t] EXCEPT !.pc = "drive"]
        /\ \A u \in Tasks \ {t} : task'[u] = task[u]
    BY <1>2, SetPlace
  <1>4. task'[t].pc = "drive" /\ task'[t].pass = p
    BY <1>1, <1>3 DEF TaskType
  <1>5. job'[p].status # "Running"
    <2>1. job' = IF Ended(p) THEN job ELSE [job EXCEPT ![p].status = "Cancelled"]
      BY DEF Run
    <2> QED
      BY <1>1, <2>1 DEF Ended, JobTerminal, JobsType, JobType
  <1> QED
    BY <1>3, <1>4, <1>5 DEF Leads

\* The Team of a pass begins: nobody else could begin it.
LEMMA BeginCarries ==
    ASSUME ChainConstants, TypeInv, CarryInv, NEW t \in Tasks, Run(t), StillWanted(task[t].pass)
    PROVE  CarryInv'
  <1> DEFINE p == task[t].pass
  <1>1. p \in Exist /\ p \in Passes /\ job[p] \in JobType /\ job \in JobsType
        /\ task[t] \in TaskType /\ task[t].pc = "run"
    BY BriefOf DEF Run, At, OfPass, TypeInv
  <1>2. job' = [job EXCEPT ![p].begun = TRUE] /\ up' = up /\ up
    BY DEF Run, Same, At
  <1>3. /\ job'[p] = [job[p] EXCEPT !.begun = TRUE]
        /\ \A q \in Passes \ {p} : job'[q] = job[q]
    BY <1>1, <1>2 DEF JobsType
  <1>4. job'[p].status = job[p].status
    BY <1>1, <1>3 DEF JobType
  <1>5. Exist' = Exist
    BY <1>3, <1>4 DEF Exist
  <1>6. Set(t, [task[t] EXCEPT !.pc = "team"])
    BY DEF Run, Goto
  <1>7. /\ task'[t] = [task[t] EXCEPT !.pc = "team"]
        /\ \A u \in Tasks \ {t} : task'[u] = task[u]
    BY <1>6, SetPlace
  <1>8. task'[t].pc = "team" /\ task'[t].pass = p
    BY <1>1, <1>7 DEF TaskType
  <1>9. \A u \in Tasks : task[u].pc \in OfPass => task[u].pass \in Exist
    BY BriefOf
  <1>10. Exist \subseteq Passes
    BY DEF Exist
  <1>11. \A u \in Tasks : task'[u].pc \in {"record", "run"} => ~job'[task'[u].pass].begun
    <2>1. ASSUME NEW u \in Tasks, task'[u].pc \in {"record", "run"}
          PROVE  ~job'[task'[u].pass].begun
      <3>1. u # t /\ task'[u] = task[u]
        BY <1>7, <1>8, <2>1
      <3>2. task[u].pass # p /\ ~job[task[u].pass].begun /\ task[u].pass \in Passes
        BY <1>1, <1>9, <1>10, <2>1, <3>1 DEF CarryInv, OfPass
      <3> QED
        BY <1>3, <3>1, <3>2
    <2> QED
      BY <2>1
  <1>12. \A u, v \in Tasks :
           /\ task'[u].pc \in {"record", "run"} /\ task'[v].pc \in {"record", "run"}
           /\ task'[u].pass = task'[v].pass
           => u = v
    BY <1>7, <1>8 DEF CarryInv
  <1>13. \A u \in Tasks :
           task'[u].pass \in Exist /\ job'[task'[u].pass].status = "Running" =>
              task'[u].pc \in Carrying
    <2>1. ASSUME NEW u \in Tasks, u # t,
                 task'[u].pass \in Exist, job'[task'[u].pass].status = "Running"
          PROVE  task'[u].pc \in Carrying
      <3>1. task'[u] = task[u] /\ task[u].pass \in Exist /\ task[u].pass \in Passes
        BY <1>7, <1>10, <2>1
      <3>2. job[task[u].pass].status = "Running"
        BY <1>3, <1>4, <2>1, <3>1
      <3> QED
        BY <3>1, <3>2 DEF CarryInv, Carrying
    <2> QED
      BY <1>8, <2>1 DEF Carrying
  <1>15. cut' = cut
    BY DEF Run
  <1>14. ASSUME NEW q \in Exist \ cut.lost, job'[q].begun, job'[q].status = "Running"
         PROVE  \E u \in Tasks : task'[u].pass = q /\ task'[u].pc # "idle"
    <2>1. CASE q = p
      BY <1>8, <2>1
    <2>2. CASE q # p
      <3>1. job[q].begun /\ job[q].status = "Running"
        BY <1>3, <1>10, <1>14, <2>2
      <3>2. PICK u \in Tasks : task[u].pass = q /\ task[u].pc # "idle"
        BY <1>2, <3>1 DEF CarryInv, BegunIsCarried, Carried
      <3>3. u # t
        BY <2>2, <3>2
      <3> QED
        BY <1>7, <3>2, <3>3
    <2> QED
      BY <2>1, <2>2
  <1> QED
    BY <1>5, <1>11, <1>12, <1>13, <1>14, <1>15 DEF CarryInv, BegunIsCarried, Carried, Carrying

\* A pass is added, not begun, and only the request that adds it may begin it.
LEMMA AddCarries ==
    ASSUME ChainConstants, TypeInv, CarryInv, NEW b, Briefed(b), Grows(b), up' = up,
           NEW t \in Tasks, \A u \in Tasks \ {t} : task'[u] = task[u],
           task'[t].pass \in {0, NextPass}, task'[t].pass = NextPass => task'[t].pc \in Carrying,
           task'[t].pc \in {"record", "run"} => task'[t].pass = NextPass,
           task[t].pc \notin Carrying
    PROVE  CarryInv'
  <1>1. /\ Exist' = Exist \cup {NextPass} /\ NextPass \in Passes /\ NextPass \notin Exist
        /\ job'[NextPass] = NewPass(b) /\ ~NewPass(b).begun
        /\ \A p \in Passes \ {NextPass} : Ordinary(job[p], job'[p])
        /\ cut' = cut
    BY NewPassFields DEF Grows, Adds, Briefed
  <1>2. Exist \subseteq Passes /\ 0 \notin Exist /\ NextPass # 0
    BY <1>1 DEF Exist, Passes
  <1>3. \A p \in Exist : job'[p].begun = job[p].begun
                         /\ (job'[p].status = "Running" => job[p].status = "Running")
    BY <1>1, <1>2 DEF Ordinary, Later
  <1>4. \A u \in Tasks : /\ task[u].pass \in Exist \cup {0}
                         /\ task[u].pc \in {"record", "run"} => task[u].pass \in Exist
    BY BriefOf DEF Fits, OfPass
  <1>5. \A u \in Tasks : task'[u].pc \in {"record", "run"} => ~job'[task'[u].pass].begun
    BY <1>1, <1>3, <1>4 DEF CarryInv
  <1>6. \A u, v \in Tasks :
           /\ task'[u].pc \in {"record", "run"} /\ task'[v].pc \in {"record", "run"}
           /\ task'[u].pass = task'[v].pass
           => u = v
    BY <1>1, <1>4 DEF CarryInv
  <1>7. \A u \in Tasks :
           task'[u].pass \in Exist' /\ job'[task'[u].pass].status = "Running" =>
              task'[u].pc \in Carrying
    BY <1>1, <1>2, <1>3, <1>4 DEF CarryInv, Carrying
  <1>8. ASSUME up', NEW q \in Exist' \ cut'.lost, job'[q].begun, job'[q].status = "Running"
        PROVE  \E u \in Tasks : task'[u].pass = q /\ task'[u].pc # "idle"
    <2>1. q \in Exist \ cut.lost
      BY <1>1, <1>8
    <2>2. job[q].begun /\ job[q].status = "Running"
      BY <1>3, <1>8, <2>1
    <2>3. PICK u \in Tasks : task[u].pass = q /\ task[u].pc # "idle"
      BY <1>8, <2>1, <2>2 DEF CarryInv, BegunIsCarried, Carried
    <2>4. u # t
      BY <2>1, <2>2, <2>3 DEF CarryInv, Carrying
    <2> QED
      BY <2>3, <2>4
  <1> QED
    BY <1>5, <1>6, <1>7, <1>8 DEF CarryInv, BegunIsCarried, Carried, Carrying

\* Nobody moves, and a controller that comes up again finds no pass running.
LEMMA StayCarries ==
    ASSUME ChainConstants, TypeInv, CarryInv, Settles \/ Touches, UNCHANGED task,
           up' = up \/ \A p \in Passes : job'[p].status # "Running"
    PROVE  CarryInv'
  <1>1. /\ Exist' = Exist /\ \A p \in Passes : Ordinary(job[p], job'[p])
        /\ cut.lost \subseteq cut'.lost
    BY Ordinarily
  <1>2. \A p \in Passes : job'[p].begun = job[p].begun
                          /\ (job'[p].status = "Running" => job[p].status = "Running")
    BY <1>1 DEF Ordinary, Later
  <1>3. \A u \in Tasks : task[u].pc \in OfPass => task[u].pass \in Exist
    BY BriefOf
  <1>4. Exist \subseteq Passes
    BY DEF Exist
  <1>5. \A u \in Tasks : task[u].pc \in {"record", "run"} => ~job'[task[u].pass].begun
    BY <1>2, <1>3, <1>4 DEF CarryInv, OfPass
  <1>6. \A u \in Tasks : task[u].pass \in Exist /\ job'[task[u].pass].status = "Running" =>
           task[u].pc \in Carrying
    BY <1>2, <1>4 DEF CarryInv, Carrying
  <1>7. up' => \A p \in Exist \ cut'.lost :
           job'[p].begun /\ job'[p].status = "Running" => Carried(p)
    BY <1>1, <1>2, <1>4 DEF CarryInv, BegunIsCarried
  <1> QED
    BY <1>1, <1>5, <1>6, <1>7 DEF CarryInv, BegunIsCarried, Carried, Carrying

\* The request that adds a pass goes on with it, or ends; either way it let go of nothing.
LEMMA CreateCarries ==
    ASSUME ChainConstants, TypeInv, CarryInv, NEW t \in Tasks, Create(t) \/ CreateInterrupted(t)
    PROVE  CarryInv'
  <1> DEFINE b == task[t].brief
             s == [task[t] EXCEPT !.pc = "record", !.pass = NextPass]
             r == [task[t] EXCEPT !.pc = "run", !.pass = NextPass, !.brief = NoBrief]
  <1>1. task[t] \in TaskType /\ task[t].pc = "create" /\ Briefed(b)
    BY BriefOf, BriefsBriefed DEF Create, CreateInterrupted, At
  <1>2. /\ s.pc = "record" /\ s.pass = NextPass
        /\ r.pc = "run" /\ r.pass = NextPass
    BY <1>1 DEF TaskType
  <1>3. Dies \/ (up' = up /\ (Fail(t) \/ Set(t, s) \/ Set(t, r)))
    <2>1. ~MayBeGuarded(t) /\ ~Guarded(t)
      BY <1>1 DEF MayBeGuarded, Guarded
    <2> QED
      BY <2>1 DEF Create, CreateInterrupted, Dispatched, Same, CutOff, Dropped, GuardDropped, Fail
  <1>6. CASE Dies
    BY <1>6, DiesCarries
  <1> HIDE DEF s, r
  <1>4. CASE ~Dies /\ Touches /\ task'[t] = Idle
    <2>1. task'[t].pass = 0 /\ task'[t].pc = "idle" /\ \A u \in Tasks \ {t} : task'[u] = task[u]
      BY <1>3, <1>4, SetPlace, IdlePlace DEF Fail
    <2>2. Elsewhere(t)
      BY <1>1, <2>1 DEF Elsewhere, Carrying
    <2> QED
      BY <1>1, <1>3, <1>4, <2>2, ElsewhereLeads, LeadsCarry
  <1>5. CASE ~Dies /\ Adds(b)
    <2>1. Grows(b) /\ NextPass # 0
      BY <1>1, <1>5, AddsGrows DEF Grows, Passes
    <2>2. up' = up /\ \A u \in Tasks \ {t} : task'[u] = task[u]
      BY <1>3, <1>5, SetPlace DEF Fail
    <2>3. \/ task'[t].pass = 0 /\ task'[t].pc = "idle"
          \/ task'[t].pass = NextPass /\ task'[t].pc \in {"record", "run"}
      BY <1>2, <1>3, <1>5, SetPlace, IdlePlace DEF Fail
    <2> QED
      BY <1>1, <2>1, <2>2, <2>3, AddCarries DEF Carrying
  <1> QED
    BY <1>4, <1>5, <1>6, CreateShape

\* The request that supersedes a pass goes on with the successor, or ends.
LEMMA SupersedeCarries ==
    ASSUME ChainConstants, TypeInv, CarryInv, NEW t \in Tasks, Supersede(t)
    PROVE  CarryInv'
  <1> DEFINE b == Probe(task[t].pass)
             r == [task[t] EXCEPT !.pc = "run", !.pass = NextPass]
  <1>1. task[t] \in TaskType /\ task[t].pc = "supersede" /\ Briefed(b) /\ up' = up
    BY BriefOf, BriefsBriefed DEF Supersede, At, Same
  <1>2. r.pc = "run" /\ r.pass = NextPass
    BY <1>1 DEF TaskType
  <1>3. Fail(t) \/ Set(t, r)
    BY DEF Supersede
  <1> HIDE DEF r, b
  <1>4. \A u \in Tasks \ {t} : task'[u] = task[u]
    BY <1>3, SetPlace DEF Fail
  <1>5. \/ task'[t].pass = 0 /\ task'[t].pc = "idle"
        \/ task'[t].pass = NextPass /\ task'[t].pc = "run"
    BY <1>2, <1>3, SetPlace, IdlePlace DEF Fail
  <1>6. CASE Touches /\ task'[t] = Idle
    <2>1. Elsewhere(t)
      BY <1>1, <1>4, <1>6, IdlePlace DEF Elsewhere, Carrying
    <2> QED
      BY <1>1, <1>6, <2>1, ElsewhereLeads, LeadsCarry
  <1>7. CASE Adds(b)
    <2>1. Grows(b) /\ NextPass # 0
      BY <1>1, <1>7, AddsGrows DEF Grows, Passes
    <2> QED
      BY <1>1, <1>4, <1>5, <2>1, AddCarries DEF Carrying
  <1>8. Adds(b) \/ (Touches /\ task'[t] = Idle)
    BY SupersedeShape DEF b
  <1> QED
    BY <1>6, <1>7, <1>8

\* Every step keeps whoever is responsible for a pass that began, or ends the pass.
LEMMA CarryStep ==
    ASSUME ChainConstants, TypeInv, CarryInv, [Next]_vars
    PROVE  CarryInv'
  <1>1. ASSUME NEW t \in Tasks, Step(t)
        PROVE  CarryInv'
    <2> DEFINE Cut == CreateInterrupted(t) \/ SupersedeInterrupted(t) \/ WriteInterrupted(t)
    <2>1. ~Cut => up' = up
      BY <1>1 DEF Step, Create, Run, Deliver, TeamFails, Apply, Fallback, Late, Drive, Supersede,
                  Propose, Execute, Stop, FollowUp, Record, Drain, Abandon, Same
    <2>11. CASE SupersedeInterrupted(t)
      <3>1. Touches /\ CutOff(t) /\ ~Losing(t)
        BY <2>11, SupersedeInterruptedShape DEF SupersedeInterrupted, At, Losing
      <3> QED
        BY <3>1, DiesCarries, DroppedLeads, LeadsCarry DEF CutOff, Dropped
    <2>12. CASE WriteInterrupted(t)
      <3>1. Settles /\ HalfWritten(t)
        BY <2>12, HalfWrittenSettles DEF WriteInterrupted
      <3>2. task[t].pc \in {"apply", "fallback", "late", "abandon"} =>
              job'[task[t].pass].status # "Running"
        BY <3>1, HalfWrittenEnds
      <3>3. CASE Dies
        BY <3>3, DiesCarries
      <3>4. CASE Dropped(t)
        BY <3>1, <3>2, <3>4, DroppedLeads, LeadsCarry DEF Losing, Dropped
      <3>5. CASE /\ task[t].pc = "apply" /\ up' = up
                 /\ Set(t, [task[t] EXCEPT !.pc = "fallback", !.result = NoResult])
        BY <3>1, <3>5, OnLeads, LeadsCarry
      <3> QED
        BY <2>12, <3>3, <3>4, <3>5 DEF WriteInterrupted, CutOff
    <2>2. CASE Create(t) \/ CreateInterrupted(t)
      BY <2>2, CreateCarries
    <2>3. CASE Supersede(t)
      BY <2>3, SupersedeCarries
    <2>4. CASE ~Cut /\ Run(t)
      <3>1. CASE StillWanted(task[t].pass)
        BY <2>4, <3>1, BeginCarries
      <3>2. CASE ~StillWanted(task[t].pass)
        <4>1. Touches
          BY <2>4, <3>2, RunShape DEF Begins, StillWanted
        <4> QED
          BY <2>1, <2>4, <3>2, <4>1, RunLeads, LeadsCarry
      <3> QED
        BY <3>1, <3>2
    <2>5. CASE ~Cut /\ Deliver(t)
      <3>1. Settles \/ Touches
        BY <2>5, DeliverShape
      <3> QED
        BY <2>1, <2>5, <3>1, DeliverLeads, LeadsCarry
    <2>6. CASE ~Cut /\ Apply(t)
      BY <2>1, <2>6, ApplyShape, ApplyLeads, LeadsCarry
    <2>13. CASE ~Cut /\ (TeamFails(t) \/ Fallback(t) \/ Late(t))
      <3>1. Settles \/ Touches
        BY <2>13, FallbackShape, LateShape, UntouchedTouches DEF TeamFails
      <3> QED
        BY <2>1, <2>13, <3>1, FailureLeads, LeadsCarry
    <2>7. CASE ~Cut /\ Record(t)
      BY <2>1, <2>7, RecordShape, RecordLeads, LeadsCarry
    <2>8. CASE ~Cut /\ Abandon(t)
      BY <2>1, <2>8, AbandonShape, AbandonLeads, LeadsCarry
    <2>9. CASE /\ ~Cut
               /\ \/ Drive(t) \/ Propose(t) \/ Execute(t) \/ Stop(t) \/ FollowUp(t) \/ Drain(t)
      <3>1. Settles \/ Touches
        BY <2>9, DriveShape, ProposeShape, ExecuteShape, StopShape,
           UntouchedTouches DEF FollowUp, Drain
      <3>2. Elsewhere(t)
        BY <2>9, StepElsewhere
      <3> QED
        BY <2>1, <2>9, <3>1, <3>2, ElsewhereLeads, LeadsCarry
    <2>14. Cut => CarryInv'
      BY <2>2, <2>11, <2>12
    <2>15. Step(t) /\ ~Cut =>
             \/ Create(t) \/ Supersede(t) \/ Run(t) \/ Deliver(t) \/ Apply(t)
             \/ TeamFails(t) \/ Fallback(t) \/ Late(t) \/ Record(t) \/ Abandon(t)
             \/ Drive(t) \/ Propose(t) \/ Execute(t) \/ Stop(t) \/ FollowUp(t) \/ Drain(t)
      BY DEF Step
    <2> HIDE DEF Cut
    <2> QED
      BY <1>1, <2>2, <2>3, <2>4, <2>5, <2>6, <2>7, <2>8, <2>9, <2>13, <2>14, <2>15
  <1>2. ASSUME NEW t \in Tasks, Human(t)
        PROVE  CarryInv'
    <2>1. up' = up
      BY <1>2 DEF Human, Report, Approve, SendUpstream, Comment, Resume, Same
    <2>2. Settles \/ Touches
      BY <1>2, ReportShape, DecisionShape, UntouchedTouches
         DEF Human, Approve, SendUpstream, Comment, Resume
    <2> QED
      BY <1>2, <2>1, <2>2, HumanElsewhere, ElsewhereLeads, LeadsCarry
  <1>3. ASSUME NEW t \in Tasks, Drop(t)
        PROVE  CarryInv'
    <2>1. Touches /\ up' = up /\ Dropped(t)
      BY <1>3, DropShape DEF Drop, Dropped
    <2>2. Losing(t) => task[t].pass \in cut'.lost
      BY <1>3 DEF Drop, TypeInv, CutType
    <2> QED
      BY <2>1, <2>2, DroppedLeads, LeadsCarry
  <1>4. CASE Reject
    BY <1>4, DecisionShape, StayCarries DEF Reject
  <1>5. CASE Acknowledge
    BY <1>5, ReviewedShape, StayCarries DEF Acknowledge
  <1>6. CASE Close
    BY <1>6, CloseShape, StayCarries DEF Close
  <1>7. CASE Recover
    BY <1>7, RecoverShape, StayCarries DEF Recover
  <1>8. CASE Freeze \/ UNCHANGED vars
    BY <1>8, UntouchedTouches, StayCarries DEF Freeze, vars
  <1>9. CASE Crash
    BY <1>9, DiesCarries DEF Crash
  <1>10. CASE DecisionInterrupted
    <2>1. Settles /\ (Dies \/ UNCHANGED <<up, task>>)
      BY <1>10, DecisionInterruptedShape DEF DecisionInterrupted
    <2> QED
      BY <2>1, DiesCarries, StayCarries
  <1> QED
    BY <1>1, <1>2, <1>3, <1>4, <1>5, <1>6, <1>7, <1>8, <1>9, <1>10 DEF Next

\* The invariant behind it holds always.
LEMMA CarriedAlways == Spec => []CarryInv
  <1>1. Init => CarryInv
    BY IdlePlace DEF Init, CarryInv, BegunIsCarried, Exist, NoPass, Passes
  <1>2. TypeInv /\ CarryInv /\ [Next]_vars => CarryInv'
    BY CarryStep, ChainConstants
  <1> QED
    BY <1>1, <1>2, Typed, PTL DEF Spec

\* Of the passes whose Team was started, none is left Running with nobody responsible, for
\* any number of requests, however they are interleaved with closings and freezes, dropped,
\* cut off, or ended by a crash; except a pass whose request was dropped or failed while it
\* recorded that very end (run_team, RunningJobGuard, recover_with).
THEOREM BegunAreCarried == Spec => []BegunIsCarried
  <1>1. CarryInv => BegunIsCarried
    BY DEF CarryInv
  <1> QED
    BY <1>1, CarriedAlways, PTL

-----------------------------------------------------------------------------
(* Who asks for a pass. *)

\* The request is not about to create a pass, or to record a result unless it was just
\* delivered; and nobody else moved.
NotAsking(t) ==
    /\ task'[t].pc # "create" /\ (task'[t].pc = "apply" => Deliver(t))
    /\ \A u \in Tasks \ {t} : task'[u] = task[u]

\* A request that ends asks for nothing.
LEMMA EndNotAsking ==
    ASSUME TypeInv, NEW t \in Tasks, Fail(t) \/ Finish(t)
    PROVE  NotAsking(t)
  BY FinishElsewhere DEF NotAsking

\* Only a request whose proposals are through, or whose decision is taken, asks for a pass.
LEMMA StepNotAsking ==
    ASSUME ChainConstants, TypeInv, NEW t \in Tasks, Step(t) \/ Drop(t), ~Stop(t), ~FollowUp(t),
           ~Dies
    PROVE  NotAsking(t)
  <1>1. task[t] \in TaskType /\ Idle \in TaskType
    BY BriefOf, IdleFits
  <1>2. ASSUME NEW r, Set(t, r), r.pc # "create", r.pc # "apply"
        PROVE  NotAsking(t)
    BY <1>2, SetPlace DEF NotAsking
  <1>3. ASSUME NEW pc, pc # "create", pc # "apply", Goto(t, pc)
        PROVE  NotAsking(t)
    <2>1. [task[t] EXCEPT !.pc = pc].pc = pc
      BY <1>1 DEF TaskType
    <2> QED
      BY <1>2, <1>3, <2>1 DEF Goto
  <1>4. ASSUME NEW p, NEW pc, pc # "create", pc # "apply",
               \/ Set(t, [task[t] EXCEPT !.pc = pc, !.pass = p])
               \/ Set(t, [task[t] EXCEPT !.pc = pc, !.pass = p, !.brief = NoBrief])
               \/ Set(t, [task[t] EXCEPT !.pc = pc, !.brief = NoBrief])
        PROVE  NotAsking(t)
    <2>1. /\ [task[t] EXCEPT !.pc = pc, !.pass = p].pc = pc
          /\ [task[t] EXCEPT !.pc = pc, !.pass = p, !.brief = NoBrief].pc = pc
          /\ [task[t] EXCEPT !.pc = pc, !.brief = NoBrief].pc = pc
      BY <1>1 DEF TaskType
    <2> QED
      BY <1>2, <1>4, <2>1
  <1>5. ASSUME NEW r, NEW pc, pc # "create", pc = "apply" => Deliver(t),
               Set(t, [task[t] EXCEPT !.pc = pc, !.result = r])
        PROVE  NotAsking(t)
    <2>1. [task[t] EXCEPT !.pc = pc, !.result = r].pc = pc
      BY <1>1 DEF TaskType
    <2> QED
      BY <1>5, <2>1, SetPlace DEF NotAsking
  <1>6. ASSUME NEW todo, NEW seen,
               \/ Set(t, [task[t] EXCEPT !.pc = "propose", !.todo = todo, !.seen = seen])
               \/ Set(t, [task[t] EXCEPT !.todo = todo, !.seen = seen]) /\ task[t].pc = "propose"
        PROVE  NotAsking(t)
    <2>1. /\ [task[t] EXCEPT !.pc = "propose", !.todo = todo, !.seen = seen].pc = "propose"
          /\ [task[t] EXCEPT !.todo = todo, !.seen = seen].pc = task[t].pc
      BY <1>1 DEF TaskType
    <2> QED
      BY <1>2, <1>6, <2>1
  <1>7. CASE Create(t)
    <2>1. \/ Fail(t) \/ Set(t, [task[t] EXCEPT !.pc = "record", !.pass = NextPass])
          \/ Set(t, [task[t] EXCEPT !.pc = "run", !.pass = NextPass, !.brief = NoBrief])
      BY <1>7 DEF Create, Dispatched
    <2> QED
      BY <1>4, <2>1, EndNotAsking
  <1>8. CASE Run(t)
    BY <1>3, <1>8 DEF Run
  <1>9. CASE Deliver(t) \/ TeamFails(t) \/ Fallback(t) \/ Late(t)
    <2>1. \/ Fail(t) \/ \E pc \in {"drive", "fallback", "late"} : Goto(t, pc)
          \/ Deliver(t) /\ \E r : Set(t, [task[t] EXCEPT !.pc = "apply", !.result = r])
      BY <1>9 DEF Deliver, TeamFails, Fallback, Late
    <2> QED
      BY <1>3, <1>5, <2>1, EndNotAsking
  <1>10. CASE Apply(t)
    <2>1. \E pc \in {"drive", "fallback"} : Set(t, [task[t] EXCEPT !.pc = pc, !.result = NoResult])
      BY <1>10 DEF Apply
    <2> QED
      BY <1>5, <2>1
  <1>11. CASE Drive(t)
    <2>1. \/ Finish(t) \/ Goto(t, "supersede")
          \/ Set(t, [task[t] EXCEPT !.pc = "propose", !.todo = 1 .. job[task[t].pass].proposes,
                                    !.seen = {}])
      BY <1>11 DEF Drive
    <2> QED
      BY <1>3, <1>6, <2>1, EndNotAsking
  <1>12. CASE Supersede(t)
    <2>1. Fail(t) \/ Set(t, [task[t] EXCEPT !.pc = "run", !.pass = NextPass])
      BY <1>12 DEF Supersede
    <2> QED
      BY <1>4, <2>1, EndNotAsking
  <1>13. CASE Propose(t)
    <2>1. \/ Fail(t) \/ Goto(t, "execute")
          \/ /\ task[t].pc = "propose"
             /\ \E todo, seen : Set(t, [task[t] EXCEPT !.todo = todo, !.seen = seen])
      <3> DEFINE x == First(task[t].todo)
      <3>1. \/ Fail(t) \/ Goto(t, "execute")
            \/ \E row \in Rows :
                 Set(t, [task[t] EXCEPT !.todo = @ \ {x}, !.seen = @ \cup {Decided(row).status}])
        BY <1>13 DEF Propose
      <3>2. task[t].pc = "propose"
        BY <1>13 DEF Propose, At
      <3> QED
        BY <3>1, <3>2
    <2> QED
      BY <1>3, <1>6, <2>1, EndNotAsking
  <1>14. CASE Execute(t)
    <2>1. Fail(t) \/ \E status : Executed(t, status)
      BY <1>14 DEF Execute
    <2>2. \/ Fail(t) \/ Goto(t, "settled")
          \/ \E todo, seen :
               Set(t, [task[t] EXCEPT !.pc = "propose", !.todo = todo, !.seen = seen])
      BY <2>1 DEF Executed
    <2> QED
      BY <1>3, <1>6, <2>2, EndNotAsking
  <1>15. CASE Record(t)
    <2>1. Fail(t) \/ Set(t, [task[t] EXCEPT !.pc = "run", !.brief = NoBrief])
      BY <1>15 DEF Record
    <2> QED
      BY <1>4, <2>1, EndNotAsking
  <1>16. CASE Drain(t)
    <2>1. Fail(t) \/ \E q, b : Set(t, [task[t] EXCEPT !.pc = "execute", !.queue = q, !.brief = b])
      BY <1>16 DEF Drain
    <2>2. ASSUME NEW q, NEW b
          PROVE  [task[t] EXCEPT !.pc = "execute", !.queue = q, !.brief = b].pc = "execute"
      BY <1>1 DEF TaskType
    <2> QED
      BY <1>2, <2>1, <2>2, EndNotAsking
  <1>17. CASE Abandon(t)
    BY <1>17, EndNotAsking DEF Abandon
  <1>18. ASSUME Dropped(t) PROVE NotAsking(t)
    <2>1. Set(t, Idle) \/ Set(t, Abandoning(task[t].pass))
      BY <1>18 DEF Dropped, GuardDropped
    <2>2. Abandoning(task[t].pass).pc = "abandon" /\ Idle.pc = "idle"
      BY <1>1, IdlePlace DEF TaskType, Abandoning
    <2> QED
      BY <1>2, <2>1, <2>2
  <1>19. CASE Drop(t) \/ CreateInterrupted(t) \/ SupersedeInterrupted(t)
    BY <1>18, <1>19 DEF Drop, CreateInterrupted, SupersedeInterrupted, CutOff
  <1>20. CASE WriteInterrupted(t)
    <2>1. CutOff(t) \/ Set(t, [task[t] EXCEPT !.pc = "fallback", !.result = NoResult])
      BY <1>20 DEF WriteInterrupted
    <2>2. ASSUME Set(t, [task[t] EXCEPT !.pc = "fallback", !.result = NoResult])
          PROVE  NotAsking(t)
      <3>1. "fallback" # "create" /\ "fallback" # "apply"
        OBVIOUS
      <3> QED
        BY <1>5, <2>2, <3>1
    <2>3. ~Dies
      OBVIOUS
    <2> QED
      BY <1>18, <2>1, <2>2, <2>3 DEF CutOff
  <1> QED
    BY <1>7, <1>8, <1>9, <1>10, <1>11, <1>12, <1>13, <1>14, <1>15, <1>16, <1>17, <1>19, <1>20
       DEF Step

\* A request about to create a pass was so before, or was sent by a human, or goes on after
\* the proposals of its own pass, or resumes a chain that nobody resumed yet.
Asks(u) ==
    \/ task[u].pc = "create" /\ task'[u].brief = task[u].brief
    \/ task'[u].brief.why \in {"report", "comment"}
    \/ /\ task'[u].brief.why = "review" /\ UNCHANGED run
       /\ NeedsReview(task'[u].brief.from, task'[u].brief.item)
    \/ /\ task[u].pass \in Exist
       /\ task'[u].brief.why = "follow" /\ task'[u].brief.from = task[u].pass
       /\ task'[u].brief.budget = OneLess(task[u].pass)
    \/ /\ task[u].brief.from \in Exist /\ Resumable(task[u].brief.from) /\ FollowUpFree
       /\ \A v \in Tasks \ {u} : task'[v] = task[v]
       /\ UNCHANGED job
       /\ task'[u].brief.why = "settled" /\ task'[u].brief.from = task[u].brief.from
       /\ task'[u].brief.budget = OneLess(task[u].brief.from)

\* How a request comes to ask for a pass.
LEMMA StepAsks ==
    ASSUME ChainConstants, TypeInv, NEW t \in Tasks, Step(t) \/ Human(t) \/ Drop(t), task'[t].pc = "create"
    PROVE  Asks(t)
  <1>1. task[t] \in TaskType /\ Idle \in TaskType
    BY BriefOf, IdleFits
  <1>2. CASE Stop(t)
    <2> DEFINE b == [why |-> "follow", from |-> task[t].pass, budget |-> OneLess(task[t].pass),
                     item |-> 0]
    <2>1. task[t].pass \in Exist
      BY <1>2, BriefOf DEF Stop, At, OfPass
    <2>2. Finish(t) \/ Set(t, [task[t] EXCEPT !.pc = "create", !.seen = {}, !.brief = b])
      BY <1>2 DEF Stop
    <2> HIDE DEF b
    <2>3. task'[t] = [task[t] EXCEPT !.pc = "create", !.seen = {}, !.brief = b]
      BY <2>2, SetPlace, EndNotAsking DEF NotAsking
    <2>4. task'[t].brief = b
      BY <1>1, <2>3 DEF TaskType
    <2> QED
      BY <2>1, <2>4 DEF Asks, b
  <1>3. CASE FollowUp(t)
    <2> DEFINE p == task[t].brief.from
               b == [why |-> "settled", from |-> p, budget |-> OneLess(p), item |-> 0]
    <2>1. p \in Exist /\ FollowUpFree /\ UNCHANGED job
      BY <1>3, BriefOf DEF FollowUp, At, Fits
    <2>2. Finish(t) \/ (Resumable(p) /\ Set(t, [task[t] EXCEPT !.pc = "create", !.brief = b]))
      BY <1>3 DEF FollowUp
    <2> HIDE DEF b
    <2>3. /\ Resumable(p) /\ task'[t] = [task[t] EXCEPT !.pc = "create", !.brief = b]
          /\ \A v \in Tasks \ {t} : task'[v] = task[v]
      BY <2>2, SetPlace, EndNotAsking DEF NotAsking
    <2>4. task'[t].brief = b
      BY <1>1, <2>3 DEF TaskType
    <2> QED
      BY <2>1, <2>3, <2>4 DEF Asks, b
  <1>4. ASSUME NEW op, NEW why \in {"comment", "review"}, NEW from, NEW item, NEW r,
               why = "review" => UNCHANGED run /\ NeedsReview(from, item),
               r = [Idle EXCEPT !.op = op, !.pc = "create",
                      !.brief = [why |-> why, from |-> from, budget |-> FreshBudget, item |-> item]],
               Set(t, r)
        PROVE  Asks(t)
    <2> DEFINE b == [why |-> why, from |-> from, budget |-> FreshBudget, item |-> item]
    <2>1. b.why = why /\ b.from = from /\ b.item = item
      OBVIOUS
    <2> HIDE DEF b
    <2>2. r = [Idle EXCEPT !.op = op, !.pc = "create", !.brief = b]
      BY <1>4 DEF b
    <2>3. r.brief = b
      BY <1>1, <2>2 DEF TaskType
    <2>4. task'[t].brief = b
      BY <1>4, <2>3, SetPlace
    <2> QED
      BY <1>4, <2>1, <2>4 DEF Asks
  <1>5. CASE Human(t)
    <2>1. task[t].pc # "create"
      BY <1>5 DEF Human, Report, Approve, SendUpstream, Comment, Resume, At
    <2>2. CASE Report(t)
      <3> DEFINE b == [NoBrief EXCEPT !.why = "report", !.budget = FreshBudget]
                 s == [Idle EXCEPT !.op = "report", !.pc = "create", !.brief = b]
      <3>1. UNCHANGED task \/ Set(t, s)
        BY <2>2 DEF Report
      <3>2. b.why = "report"
        BY DEF NoBrief
      <3> HIDE DEF b
      <3>3. s.brief = b
        BY <1>1 DEF TaskType
      <3> HIDE DEF s
      <3> QED
        BY <2>1, <3>1, <3>2, <3>3, SetPlace DEF Asks
    <2>3. CASE SendUpstream(t)
      <3>1. PICK p, item :
              /\ NeedsReview(p, item) /\ UNCHANGED run
              /\ Set(t, [Idle EXCEPT !.op = "review", !.pc = "create",
                     !.brief = [why |-> "review", from |-> p, budget |-> FreshBudget,
                                item |-> item]])
        BY <2>3 DEF SendUpstream
      <3> QED
        BY <1>4, <3>1
    <2>6. CASE Comment(t)
      BY <1>4, <2>6 DEF Comment
    <2>4. CASE Approve(t)
      <3>1. PICK b : Set(t, [Idle EXCEPT !.op = "approve", !.pc = "execute", !.brief = b])
        BY <2>4 DEF Approve
      <3>2. [Idle EXCEPT !.op = "approve", !.pc = "execute", !.brief = b].pc = "execute"
        BY <1>1 DEF TaskType
      <3> QED
        BY <3>1, <3>2, SetPlace
    <2>5. CASE Resume(t)
      <3>1. PICK q : Set(t, IF q = {} THEN Idle
                            ELSE [Idle EXCEPT !.op = "resume", !.pc = "drain", !.queue = q])
        BY <2>5 DEF Resume
      <3>2. [Idle EXCEPT !.op = "resume", !.pc = "drain", !.queue = q].pc = "drain"
        BY <1>1 DEF TaskType
      <3> QED
        BY <3>1, <3>2, SetPlace, IdlePlace
    <2> QED
      BY <1>5, <2>2, <2>3, <2>4, <2>5, <2>6 DEF Human
  <1> QED
    BY <1>2, <1>3, <1>5, StepNotAsking, IdlePlace DEF NotAsking, Dies

\* The same of any step and any request.
LEMMA NextAsks ==
    ASSUME ChainConstants, TypeInv, [Next]_vars, NEW u \in Tasks, task'[u].pc = "create"
    PROVE  Asks(u)
  <1>1. ASSUME UNCHANGED task PROVE Asks(u)
    BY <1>1 DEF Asks
  <1>2. ASSUME NEW t \in Tasks, Step(t) \/ Human(t) \/ Drop(t) PROVE Asks(u)
    <2>3. ~Dies
      BY IdlePlace DEF Dies
    <2>1. CASE u = t
      BY <1>2, <2>1, StepAsks
    <2>2. CASE u # t
      <3>1. task'[u] = task[u]
        <4>1. CASE Step(t) \/ Drop(t)
          <5>1. CASE Stop(t) \/ FollowUp(t)
            BY <2>2, <5>1, SetPlace, EndNotAsking DEF Stop, FollowUp, NotAsking
          <5> QED
            BY <2>2, <2>3, <4>1, <5>1, StepNotAsking DEF NotAsking
        <4>2. CASE Human(t)
          BY <2>2, <4>2, HumanElsewhere DEF Elsewhere
        <4> QED
          BY <1>2, <4>1, <4>2
      <3> QED
        BY <3>1 DEF Asks
    <2> QED
      BY <2>1, <2>2
  <1>3. CASE Crash \/ (DecisionInterrupted /\ task' # task)
    BY <1>3, IdlePlace DEF Crash, DecisionInterrupted, Dies
  <1> QED
    BY <1>1, <1>2, <1>3 DEF Next, Reject, Acknowledge, Close, Freeze, Recover, vars

\* The request that adds a pass does not ask for one any more.
LEMMA CreatedOnce ==
    ASSUME ChainConstants, TypeInv, NEW t \in Tasks, Creates(t) \/ Supersedes(t)
    PROVE  \A u \in Tasks : task'[u].pc = "create" => u # t /\ task'[u] = task[u]
  <1>1. task[t].pc \in {"create", "supersede"}
    BY DEF Creates, Supersedes, Create, CreateInterrupted, Supersede, At
  <1>2. ~Stop(t) /\ ~FollowUp(t)
    BY <1>1 DEF Stop, FollowUp, At
  <1>3. Step(t)
    BY DEF Creates, Supersedes, Step
  <1> QED
    BY <1>2, <1>3, StepNotAsking, IdlePlace DEF NotAsking, Dies

-----------------------------------------------------------------------------
(* Budgets along a line. *)

\* The two facts about budgets that steps keep.
PassBudgets ==
    \A p \in Exist : job[p].why \in Automatic =>
        job[p].from \in Exist /\ job[p].budget = job[job[p].from].budget - 1
BriefBudgets ==
    \A t \in Tasks : task[t].pc = "create" /\ task[t].brief.why \in Automatic =>
        /\ task[t].brief.from \in Exist
        /\ task[t].brief.budget = job[task[t].brief.from].budget - 1

\* What a pass says of its origin stays.
LEMMA OriginStays ==
    ASSUME ChainConstants, TypeInv, [Next]_vars, NEW p \in Exist
    PROVE  /\ p \in Exist'
           /\ job'[p].why = job[p].why /\ job'[p].from = job[p].from
           /\ job'[p].budget = job[p].budget
  BY RecordsStep DEF Later

\* A pass that is new was asked for, or supersedes another.
LEMMA NewPassOrigin ==
    ASSUME ChainConstants, TypeInv, [Next]_vars, NEW p \in Exist', p \notin Exist
    PROVE  /\ p = NextPass
           /\ \E t \in Tasks : \E b \in BriefType :
                /\ \/ Creates(t) /\ b = task[t].brief /\ task[t].pc = "create"
                   \/ Supersedes(t) /\ b = Probe(task[t].pass) /\ task[t].pass \in Exist
                /\ job'[p].why = b.why /\ job'[p].from = b.from /\ job'[p].budget = b.budget
  <1>1. ASSUME NEW b, Briefed(b), Grows(b)
        PROVE  /\ p = NextPass /\ b \in BriefType
               /\ job'[p].why = b.why /\ job'[p].from = b.from /\ job'[p].budget = b.budget
    BY <1>1, NewPassFields DEF Grows, Adds, Briefed
  <1>2. ASSUME NEW t \in Tasks, Creates(t), Grows(task[t].brief)
        PROVE  task[t].pc = "create" /\ Briefed(task[t].brief)
    BY <1>2, BriefsBriefed DEF Creates, Create, CreateInterrupted, At
  <1>3. ASSUME NEW t \in Tasks, Supersedes(t), Grows(Probe(task[t].pass))
        PROVE  task[t].pass \in Exist /\ Briefed(Probe(task[t].pass))
    BY <1>3, BriefsBriefed, BriefOf DEF Supersedes, Supersede, At, OfPass
  <1> QED
    BY <1>1, <1>2, <1>3, RecordsStep

\* Every step keeps what passes and briefs say of their budgets.
LEMMA BudgetsStep ==
    ASSUME ChainConstants, TypeInv, PassBudgets, BriefBudgets, [Next]_vars
    PROVE  PassBudgets' /\ BriefBudgets'
  <1>1. \A p \in Exist : /\ p \in Exist' /\ job'[p].why = job[p].why
                        /\ job'[p].from = job[p].from /\ job'[p].budget = job[p].budget
    BY OriginStays
  <1>2. ASSUME NEW p \in Exist', job'[p].why \in Automatic
        PROVE  job'[p].from \in Exist' /\ job'[p].budget = job'[job'[p].from].budget - 1
    <2>1. CASE p \in Exist
      <3>1. job[p].from \in Exist /\ job[p].budget = job[job[p].from].budget - 1
        BY <1>1, <1>2, <2>1 DEF PassBudgets
      <3> QED
        BY <1>1, <2>1, <3>1
    <2>2. CASE p \notin Exist
      <3>1. PICK t \in Tasks, b \in BriefType :
              /\ \/ b = task[t].brief /\ task[t].pc = "create"
                 \/ b = Probe(task[t].pass) /\ task[t].pass \in Exist
              /\ job'[p].why = b.why /\ job'[p].from = b.from /\ job'[p].budget = b.budget
        BY <2>2, NewPassOrigin
      <3>2. b.from \in Exist /\ b.budget = job[b.from].budget - 1
        BY <1>2, <3>1 DEF BriefBudgets, Probe, OneLess
      <3> QED
        BY <1>1, <3>1, <3>2
    <2> QED
      BY <2>1, <2>2
  <1>3. ASSUME NEW u \in Tasks, task'[u].pc = "create", task'[u].brief.why \in Automatic
        PROVE  /\ task'[u].brief.from \in Exist'
               /\ task'[u].brief.budget = job'[task'[u].brief.from].budget - 1
    <2>1. /\ task'[u].brief.from \in Exist
          /\ task'[u].brief.budget = job[task'[u].brief.from].budget - 1
      BY <1>3, NextAsks DEF Asks, BriefBudgets, OneLess, Automatic
    <2> QED
      BY <1>1, <2>1
  <1> QED
    BY <1>2, <1>3 DEF PassBudgets, BriefBudgets

-----------------------------------------------------------------------------
(* One successor each. *)

\* The parts of the invariant.
SupersededFirst ==
    \A p \in Exist : job[p].why = "probe" =>
        job[p].from \in Exist /\ job[job[p].from].status = "Superseded"
NoProbeAsked == \A t \in Tasks : task[t].pc = "create" => task[t].brief.why # "probe"
Resumes(t) == task[t].pc = "create" /\ task[t].brief.why = "settled"
OneResumes == \A t, u \in Tasks : Resumes(t) /\ Resumes(u) => t = u
NotYetResumed ==
    \A t \in Tasks : Resumes(t) =>
        \A p \in Exist : job[p].why = "settled" => job[p].from # task[t].brief.from
SuccessorInv ==
    /\ SupersededFirst /\ NoProbeAsked /\ OneResumes /\ NotYetResumed /\ OneSuccessorEach

\* A superseded pass stays superseded.
LEMMA SupersededStays ==
    ASSUME ChainConstants, TypeInv, [Next]_vars, NEW p \in Exist, job[p].status = "Superseded"
    PROVE  job'[p].status = "Superseded"
  <1>1. p \in Passes /\ job[p] \in JobType /\ Ended(p)
    BY DEF Exist, TypeInv, JobsType, Ended, JobTerminal
  <1>2. Later(job[p], job'[p])
    BY RecordsStep
  <1>3. PICK b \in BOOLEAN : job'[p] = [job[p] EXCEPT !.reviewed = b]
    BY <1>1, <1>2 DEF Later, Ended
  <1> QED
    BY <1>1, <1>3 DEF JobType

\* Every step keeps what makes successors unique.
LEMMA SuccessorStep ==
    ASSUME ChainConstants, TypeInv, SuccessorInv, [Next]_vars
    PROVE  SuccessorInv'
  <1>1. \A p \in Exist : /\ p \in Exist' /\ job'[p].why = job[p].why
                        /\ job'[p].from = job[p].from
    BY OriginStays
  <1>2. ASSUME NEW p \in Exist', job'[p].why = "probe"
        PROVE  job'[p].from \in Exist' /\ job'[job'[p].from].status = "Superseded"
    <2>1. CASE p \in Exist
      BY <1>1, <1>2, <2>1, SupersededStays DEF SuccessorInv, SupersededFirst
    <2>2. CASE p \notin Exist
      <3>1. PICK t \in Tasks, b \in BriefType :
              /\ \/ b = task[t].brief /\ task[t].pc = "create"
                 \/ Supersedes(t) /\ b = Probe(task[t].pass) /\ task[t].pass \in Exist
              /\ job'[p].why = b.why /\ job'[p].from = b.from
        BY <2>2, NewPassOrigin
      <3>2. Supersedes(t) /\ b.from = task[t].pass /\ task[t].pass \in Exist
        BY <1>2, <3>1 DEF SuccessorInv, NoProbeAsked, Probe
      <3> QED
        BY <1>1, <3>1, <3>2 DEF Supersedes
    <2> QED
      BY <2>1, <2>2
  <1>3. NoProbeAsked'
    <2>1. ASSUME NEW u \in Tasks, task'[u].pc = "create" PROVE task'[u].brief.why # "probe"
      BY <2>1, NextAsks DEF NoProbeAsked, Asks, SuccessorInv
    <2> QED
      BY <2>1 DEF NoProbeAsked
  <1>4. ASSUME NEW u \in Tasks, Resumes(u)', ~Resumes(u)
        PROVE  /\ \A v \in Tasks \ {u} : ~Resumes(v)'
               /\ UNCHANGED job /\ ~Continued(task'[u].brief.from)
    <2>1. Asks(u)
      BY <1>4, NextAsks DEF Resumes
    <2>2. /\ FollowUpFree /\ UNCHANGED job /\ Resumable(task[u].brief.from)
          /\ \A v \in Tasks \ {u} : task'[v] = task[v]
          /\ task'[u].brief.from = task[u].brief.from
      BY <1>4, <2>1 DEF Asks, Resumes
    <2> QED
      BY <2>2 DEF FollowUpFree, Resumable, Resumes
  <1>5. ASSUME NEW u \in Tasks, Resumes(u)', Resumes(u)
        PROVE  task'[u].brief = task[u].brief \/ FollowUpFree
    BY <1>5, NextAsks DEF Resumes, Asks
  <1>6. ASSUME NEW u \in Tasks, Resumes(u)', Resumes(u)
        PROVE  task'[u].brief = task[u].brief
    BY <1>5, <1>6 DEF FollowUpFree, Resumes
  <1>7. OneResumes'
    BY <1>4 DEF SuccessorInv, OneResumes
  <1>8. ASSUME NEW u \in Tasks, Resumes(u)', NEW p \in Exist', job'[p].why = "settled"
        PROVE  job'[p].from # task'[u].brief.from
    <2>1. CASE ~Resumes(u)
      <3>1. Exist' = Exist /\ job' = job /\ ~Continued(task'[u].brief.from)
        BY <1>4, <1>8, <2>1 DEF Exist
      <3> QED
        BY <1>8, <3>1 DEF Continued
    <2>2. CASE Resumes(u) /\ p \in Exist
      BY <1>1, <1>6, <1>8, <2>2 DEF SuccessorInv, NotYetResumed
    <2>3. CASE Resumes(u) /\ p \notin Exist
      <3>1. PICK t \in Tasks, b \in BriefType :
              /\ \/ Creates(t) /\ b = task[t].brief /\ task[t].pc = "create"
                 \/ Supersedes(t) /\ b = Probe(task[t].pass) /\ task[t].pass \in Exist
              /\ job'[p].why = b.why /\ job'[p].from = b.from
        BY <2>3, NewPassOrigin
      <3>2. Creates(t) /\ Resumes(t)
        BY <1>8, <3>1 DEF Probe, Resumes
      <3>3. t = u
        BY <2>3, <3>2 DEF SuccessorInv, OneResumes
      <3> QED
        BY <1>8, <3>2, <3>3, CreatedOnce DEF Resumes
    <2> QED
      BY <2>1, <2>2, <2>3
  <1>9. ASSUME NEW p \in Exist', NEW q \in Exist', p \in Exist, q \notin Exist,
               job'[p].from = job'[q].from, job'[p].why = job'[q].why,
               job'[p].why \in {"probe", "settled"}
        PROVE  FALSE
    <2>1. PICK t \in Tasks, b \in BriefType :
            /\ \/ Creates(t) /\ b = task[t].brief /\ task[t].pc = "create"
               \/ Supersedes(t) /\ b = Probe(task[t].pass) /\ task[t].pass \in Exist
            /\ job'[q].why = b.why /\ job'[q].from = b.from
      BY <1>9, NewPassOrigin
    <2>2. job[p].why = b.why /\ job[p].from = b.from
      BY <1>1, <1>9, <2>1
    <2>3. CASE job'[p].why = "settled"
      <3>1. Resumes(t) /\ b = task[t].brief
        BY <1>9, <2>1, <2>3 DEF Probe, Resumes
      <3> QED
        BY <1>9, <2>2, <2>3, <3>1 DEF SuccessorInv, NotYetResumed, Resumes
    <2>4. CASE job'[p].why = "probe"
      <3>1. Supersedes(t) /\ b.from = task[t].pass
        BY <1>9, <2>1, <2>4 DEF SuccessorInv, NoProbeAsked, Probe
      <3>2. job[task[t].pass].status = "Superseded"
        BY <1>1, <1>9, <2>2, <2>4, <3>1 DEF SuccessorInv, SupersededFirst
      <3> QED
        BY <3>1, <3>2 DEF Supersedes, Ended, JobTerminal
    <2> QED
      BY <1>9, <2>3, <2>4
  <1>10. ASSUME NEW p \in Exist', NEW q \in Exist',
                job'[p].from = job'[q].from, job'[p].why = job'[q].why,
                job'[p].why \in {"probe", "settled"}
         PROVE  p = q
    <2>1. CASE p \in Exist /\ q \in Exist
      BY <1>1, <1>10, <2>1 DEF SuccessorInv, OneSuccessorEach
    <2>2. CASE p \notin Exist /\ q \notin Exist
      BY <2>2, NewPassOrigin
    <2> QED
      BY <1>9, <1>10, <2>1, <2>2
  <1> QED
    BY <1>2, <1>3, <1>7, <1>8, <1>10
       DEF SuccessorInv, SupersededFirst, NotYetResumed, OneSuccessorEach

\* A pass is superseded by one pass at most, and of the requests that resume a chain after a
\* decision one at most continues it, however many decide at once and whatever was dropped or
\* restarted in between (supersede_job, follow_up_lock).
THEOREM OneSuccessor == Spec => []OneSuccessorEach
  <1>1. Init => SuccessorInv
    BY IdlePlace DEF Init, SuccessorInv, SupersededFirst, NoProbeAsked, OneResumes, NotYetResumed,
                     OneSuccessorEach, Resumes, Exist, NoPass
  <1>2. TypeInv /\ SuccessorInv /\ [Next]_vars => SuccessorInv'
    BY SuccessorStep, ChainConstants
  <1>3. SuccessorInv => OneSuccessorEach
    BY DEF SuccessorInv
  <1> QED
    BY <1>1, <1>2, <1>3, Typed, PTL DEF Spec

-----------------------------------------------------------------------------
(* How long a chain may be. *)

\* Along a line, a pass has as much more to spend as it is further back.
LineBudgets ==
    \A p \in Exist : \A q \in Chain(p) : job[q].budget = job[p].budget + (p - q)

\* Every step keeps the budgets along every line.
LEMMA LineStep ==
    ASSUME ChainConstants, TypeInv, PassBudgets, BriefBudgets, LineBudgets, [Next]_vars
    PROVE  LineBudgets'
  <1>1. /\ LatestPass \in Nat /\ NextPass = LatestPass + 1 /\ Exist = 1 .. LatestPass
    BY NextIsFree DEF TypeInv, ChainConstants
  <1>2. \A p \in Exist : /\ p \in Exist' /\ job'[p].why = job[p].why
                        /\ job'[p].from = job[p].from /\ job'[p].budget = job[p].budget
    BY OriginStays
  <1>3. \A p \in Exist' : p \in Exist \/ p = NextPass
    BY NewPassOrigin
  <1>4. ASSUME NEW p \in Exist, NEW q \in Exist',
               q <= p, \A r \in q + 1 .. p : job'[r].why \in Automatic /\ job'[r].from = r - 1
        PROVE  q \in Chain(p)
    <2>1. q \in Exist
      BY <1>1, <1>3, <1>4
    <2>2. ASSUME NEW r \in q + 1 .. p PROVE job[r].why \in Automatic /\ job[r].from = r - 1
      <3>1. r \in Exist
        BY <1>1, <2>1
      <3> QED
        BY <1>2, <1>4, <3>1
    <2> QED
      BY <1>4, <2>1, <2>2 DEF Chain
  <1>5. \A p \in Exist : job[p].budget \in Int
    BY DEF TypeInv, JobsType, JobType, Exist, ChainConstants
  <1>6. ASSUME NEW p \in Exist', NEW q \in Exist',
               q <= p, \A r \in q + 1 .. p : job'[r].why \in Automatic /\ job'[r].from = r - 1
        PROVE  job'[q].budget = job'[p].budget + (p - q)
    <2>1. CASE p \in Exist
      <3>1. q \in Chain(p)
        BY <1>4, <1>6, <2>1
      <3>2. q \in Exist /\ job[q].budget = job[p].budget + (p - q)
        BY <2>1, <3>1 DEF LineBudgets, Chain
      <3> QED
        BY <1>2, <2>1, <3>2
    <2>2. CASE p \notin Exist /\ q = p
      <3>1. p = NextPass /\ p - q = 0
        BY <1>1, <1>3, <2>2
      <3>2. job'[p].budget \in Int
        BY RecordsStep DEF JobsType, JobType, Exist, ChainConstants
      <3> QED
        BY <2>2, <3>1, <3>2
    <2>3. CASE p \notin Exist /\ q # p
      <3> DEFINE o == p - 1
      <3>1. p = LatestPass + 1 /\ o = LatestPass /\ q \in Exist /\ q <= o /\ o \in Exist
        BY <1>1, <1>3, <1>6, <2>3
      <3>2. p \in q + 1 .. p /\ \A r \in q + 1 .. o : r \in q + 1 .. p
        BY <1>1, <3>1
      <3>3. job'[p].why \in Automatic /\ job'[p].from = o
        BY <1>6, <3>2
      <3>4. job'[p].budget = job'[o].budget - 1
        BY <3>3, BudgetsStep DEF PassBudgets
      <3>5. q \in Chain(o)
        BY <1>4, <1>6, <3>1, <3>2
      <3>6. job[q].budget = job[o].budget + (o - q)
        BY <3>1, <3>5 DEF LineBudgets
      <3>7. job'[q].budget = job[q].budget /\ job'[o].budget = job[o].budget
        BY <1>2, <3>1
      <3>8. /\ q \in Int /\ p \in Int /\ o = p - 1
            /\ job[o].budget \in Int
        BY <1>1, <1>5, <3>1
      <3> HIDE DEF o
      <3> QED
        BY <3>4, <3>6, <3>7, <3>8
    <2> QED
      BY <2>1, <2>2, <2>3
  <1> QED
    BY <1>6 DEF LineBudgets, Chain

\* What is left bounds how far back a line goes.
LEMMA LineBounds ==
    ASSUME ChainConstants, TypeInv, LineBudgets
    PROVE  ChainBound
  <1> SUFFICES ASSUME NEW p \in Exist PROVE Cardinality(Chain(p)) <= MaxAuto
    BY DEF ChainBound
  <1> DEFINE far == p - MaxAuto + 1
  <1>1. /\ LatestPass \in Nat /\ Exist = 1 .. LatestPass /\ MaxAuto \in Nat \ {0}
    BY NextIsFree DEF TypeInv, ChainConstants
  <1>2. ASSUME NEW q \in Chain(p) PROVE q \in far .. p
    <2>1. q \in Exist /\ q <= p /\ job[q].budget = job[p].budget + (p - q)
      BY <1>2 DEF Chain, LineBudgets
    <2>2. job[p].budget \in 0 .. MaxAuto - 1 /\ job[q].budget \in 0 .. MaxAuto - 1
      BY <2>1 DEF TypeInv, JobsType, JobType, Exist
    <2> QED
      BY <1>1, <2>1, <2>2
  <1>3. far \in Int /\ p \in Int /\ far <= p /\ p - far + 1 = MaxAuto
    BY <1>1
  <1> HIDE DEF far
  <1>4. IsFiniteSet(far .. p) /\ Cardinality(far .. p) = MaxAuto
    BY <1>3, FS_Interval
  <1>5. Chain(p) \subseteq far .. p
    BY <1>2
  <1> QED
    BY <1>4, <1>5, FS_Subset

\* No line of automatic passes, each continuing the one before, is longer than
\* max_auto_passes, whatever the policy, the Teams' results and the number of requests that
\* drive, approve and resume at once (PassPolicy, drive_passes, follow_up_after_approval).
THEOREM ChainIsBounded == Spec => []ChainBound
  <1>1. Init => PassBudgets /\ BriefBudgets /\ LineBudgets
    BY IdlePlace DEF Init, PassBudgets, BriefBudgets, LineBudgets, Exist, NoPass
  <1>2. TypeInv /\ PassBudgets /\ BriefBudgets /\ [Next]_vars => PassBudgets' /\ BriefBudgets'
    BY BudgetsStep, ChainConstants
  <1>3. TypeInv /\ PassBudgets /\ BriefBudgets /\ LineBudgets /\ [Next]_vars => LineBudgets'
    BY LineStep, ChainConstants
  <1>4. TypeInv /\ LineBudgets => ChainBound
    BY LineBounds, ChainConstants
  <1> QED
    BY <1>1, <1>2, <1>3, <1>4, Typed, PTL DEF Spec

-----------------------------------------------------------------------------
(* What a live Issue's records say of it, and of what is still to be done. *)

\* What a Team's word may come to: itself, a diagnosis where its claim was not believed, or
\* the failure of a restart.
Said == {r.outcome : r \in Results} \cup {"DiagnosisOnly", "Failed"}

\* A pass has an outcome only once its Team or a restart gave it one, and waits for a human
\* only when its Team said so.
Kept(j) ==
    /\ j.status # "Queued"
    /\ j.status \in {"Absent", "Running"} => j.outcome = "None"
    /\ j.status = "WaitingForHuman" => j.outcome \in {"NeedsHuman", "OptionsReady"}
    /\ j.status = "Blocked" => j.outcome = "Blocked"
    /\ j.outcome \in Said \cup {"None"}

\* What an execution may still be started of, or is started of.
Acting == {"Proposed", "Ready", "Running"}

\* What has not ended and is not blocked on a human.
Early == Acting \cup {"Absent", "WaitingForApproval", "Verifying"}

\* An Issue with such a run is not resolved.
Stops(r) == r.status \in Early \ {"Absent"} \/ (r.status # "Absent" /\ RunNeedsReview(r))

Underway(jobs) == \E p \in Passes : jobs[p].status = "Running"

\* A pass that exists has a run in one of these statuses.
SomeRun(jobs, runs, statuses) ==
    \E p \in Passes, x \in Proposals : jobs[p].status # "Absent" /\ runs[p][x].status \in statuses

NoRuns(runs) == \A p \in Passes, x \in Proposals : runs[p][x].status = "Absent"

\* What an Issue's status says of its work.  It follows the work only where a transition
\* leads: an Issue left Open has done nothing, and one left Mitigating has something to do.
Placed(status, jobs, runs) ==
    /\ status = "Absent" => \A p \in Passes : jobs[p].status = "Absent"
    /\ status \in {"Open", "Absent"} =>
         NoRuns(runs) /\ \A p \in Passes : jobs[p].outcome = "None"
    /\ status = "Investigating" => Underway(jobs)
    /\ status = "Mitigating" => SomeRun(jobs, runs, Acting)
    /\ status = "Verifying" => SomeRun(jobs, runs, {"Verifying"})

\* The status of the Issue is to be trusted.
Reliable == ~Closed /\ ~cut.status

PlaceInv == Reliable => Placed(issue, job, run)

KeptInv == \A p \in Passes : Kept(job[p])

\* A request is about to send the run back for a revision.
SendsBack(t, p, x) ==
    /\ task[t].pc = "create"
    /\ task[t].brief.why = "review" /\ task[t].brief.from = p /\ task[t].brief.item = x

\* Nobody decided against a run before its end, and nobody sent it back.
Fresh ==
    \A p \in Passes, x \in Proposals : run[p][x].status \in Early =>
        /\ ~run[p][x].reviewed /\ run[p][x].approval # "Rejected"
        /\ ~SentBack(job, p, x) /\ \A t \in Tasks : ~SendsBack(t, p, x)

\* A pass that does not exist has no runs.
NoneYet ==
    \A p \in Passes, x \in Proposals : job[p].status = "Absent" => run[p][x].status = "Absent"

Before == {"record", "run", "team", "apply", "fallback", "late", "drive", "supersede"}

\* The request works on its own pass, up to the last of its proposals.
Own(t) ==
    \/ task[t].pc \in Before \cup {"propose"}
    \/ task[t].pc = "execute" /\ ~ForOneRun(t)

\* What it may still propose.
Untried(t) ==
    IF task[t].pc \in Before THEN Proposals
    ELSE IF task[t].pc = "propose" THEN task[t].todo
    ELSE task[t].todo \ {First(task[t].todo)}

Apart == \A t, u \in Tasks : Own(t) /\ Own(u) /\ task[t].pass = task[u].pass => t = u

Blank == \A t \in Tasks : Own(t) => \A x \in Untried(t) : run[task[t].pass][x].status = "Absent"

\* What the place of a request says of its Team's word and of the Issue.
Seated(r) ==
    /\ r.pc = "apply" => r.result \in Results
    /\ r.pc # "idle" /\ Reliable => issue # "Absent"
    /\ r.pc \notin {"idle", "create"} /\ Reliable => issue # "Open"

SeatInv == \A t \in Tasks : Seated(task[t])

AttendInv == KeptInv /\ Fresh /\ NoneYet /\ Apart /\ Blank /\ SeatInv /\ PlaceInv

-----------------------------------------------------------------------------
(* Where a reconciliation takes the Issue. *)

\* The status the work implies is one of five, and says what work there is.
LEMMA Implied ==
    ASSUME NEW jobs, NEW runs,
           \E p \in Passes : jobs[p].status # "Absent",
           \A p \in Passes : Kept(jobs[p])
    PROVE  LET d == DerivedFrom(jobs, runs)
           IN /\ d \in {"Investigating", "Mitigating", "Verifying", "Resolved", "WaitingForHuman"}
              /\ d = "Investigating" => Underway(jobs)
              /\ d = "Mitigating" => SomeRun(jobs, runs, Acting)
              /\ d = "Verifying" => SomeRun(jobs, runs, {"Verifying"})
              /\ d = "Resolved" =>
                   /\ \A p \in Passes, x \in Proposals :
                        jobs[p].status # "Absent" => ~Stops(runs[p][x])
                   /\ \/ \E p \in Passes : jobs[p].outcome = "Solved"
                      \/ ~NoRuns(runs)
  <1> DEFINE d == DerivedFrom(jobs, runs)
             there == {p \in Passes : jobs[p].status # "Absent"}
             acted == {pr \in there \X Proposals : runs[pr[1]][pr[2]].status # "Absent"}
             js == {PassIn(jobs, runs, p) : p \in there}
             rs == {runs[pr[1]][pr[2]] : pr \in acted}
             remediated == \E pr \in acted : /\ \A q \in there : q <= pr[1]
                                             /\ IsRemediation(runs[pr[1]][pr[2]], TRUE)
             busy == \E j \in js : j.status \in {"Queued", "Running"}
             acting == \E r \in rs : r.status \in {"Proposed", "Ready", "Running"}
             verifying == \E r \in rs : r.status = "Verifying"
             waiting == \/ \E r \in rs : r.status = "WaitingForApproval" \/ RunNeedsReview(r)
                        \/ \E j \in js :
                             \/ JobNeedsReview(j)
                             \/ j.status \in {"WaitingForHuman", "Blocked", "NeedsResnapshot"}
             unprocessed == \E j \in js : j.status = "Completed" /\ ~j.materialized
             solved == \E j \in js : j.latest /\ j.outcome = "Solved"
             closing == remediated /\ \E j \in js : j.latest /\ ~j.followUp
  <1>1. d = CASE js = {} /\ rs = {} -> "None"
              [] busy -> "Investigating"
              [] ~busy /\ acting -> "Mitigating"
              [] ~busy /\ ~acting /\ verifying -> "Verifying"
              [] /\ ~(busy \/ acting \/ verifying \/ waiting \/ unprocessed)
                 /\ solved \/ closing -> "Resolved"
              [] OTHER -> "WaitingForHuman"
    BY DEF DerivedFrom, DerivedIssueStatus
  <1>2. js # {}
    OBVIOUS
  <1>3. busy => Underway(jobs)
    BY DEF PassIn, Kept, Underway
  <1>4. acting => SomeRun(jobs, runs, Acting)
    BY DEF SomeRun, Acting
  <1>5. verifying => SomeRun(jobs, runs, {"Verifying"})
    BY DEF SomeRun
  <1>6. ASSUME NEW p \in Passes, NEW x \in Proposals, jobs[p].status # "Absent", Stops(runs[p][x])
        PROVE  acting \/ verifying \/ waiting
    <2>1. runs[p][x].status # "Absent"
      BY <1>6 DEF Stops
    <2>2. <<p, x>> \in acted
      BY <1>6, <2>1
    <2>3. runs[p][x] \in rs
      BY <2>2
    <2>4. \/ runs[p][x].status \in {"Proposed", "Ready", "Running", "Verifying", "WaitingForApproval"}
          \/ RunNeedsReview(runs[p][x])
      BY <1>6 DEF Stops, Early, Acting
    <2> QED
      BY <2>3, <2>4
  <1>7. solved => \E p \in Passes : jobs[p].outcome = "Solved"
    BY DEF PassIn
  <1>8. closing => ~NoRuns(runs)
    BY DEF IsRemediation, NoRuns
  <1> HIDE DEF d, there, acted, js, rs, remediated, busy, acting, verifying, waiting, unprocessed,
               solved, closing
  <1>9. d \in {"Investigating", "Mitigating", "Verifying", "Resolved", "WaitingForHuman"}
    BY <1>1, <1>2
  <1>10. /\ d = "Investigating" => busy
         /\ d = "Mitigating" => acting
         /\ d = "Verifying" => verifying
         /\ d = "Resolved" => ~acting /\ ~verifying /\ ~waiting /\ (solved \/ closing)
    BY <1>1, <1>2
  <1>11. d = "Resolved" =>
           \A p \in Passes, x \in Proposals : jobs[p].status # "Absent" => ~Stops(runs[p][x])
    BY <1>6, <1>10
  <1> QED
    BY <1>3, <1>4, <1>5, <1>7, <1>8, <1>9, <1>10, <1>11 DEF d

\* Without a pass, nothing is implied.
LEMMA NothingImplied ==
    ASSUME NEW jobs, NEW runs, \A p \in Passes : jobs[p].status = "Absent"
    PROVE  DerivedFrom(jobs, runs) = "None"
  BY DEF DerivedFrom, DerivedIssueStatus

\* An Issue that is where its work leads is in its place.
LEMMA DerivedPlaced ==
    ASSUME NEW jobs, NEW runs, \A p \in Passes : Kept(jobs[p]),
           NEW status \in IssueStatus \cup {"Absent"}, status = DerivedFrom(jobs, runs)
    PROVE  Placed(status, jobs, runs) /\ status \notin {"Open", "Absent"}
  <1>1. CASE \A p \in Passes : jobs[p].status = "Absent"
    BY <1>1, NothingImplied DEF IssueStatus
  <1>2. CASE \E p \in Passes : jobs[p].status # "Absent"
    <2>1. /\ status \in {"Investigating", "Mitigating", "Verifying", "Resolved", "WaitingForHuman"}
          /\ status = "Investigating" => Underway(jobs)
          /\ status = "Mitigating" => SomeRun(jobs, runs, Acting)
          /\ status = "Verifying" => SomeRun(jobs, runs, {"Verifying"})
      BY <1>2, Implied
    <2> QED
      BY <2>1 DEF Placed
  <1> QED
    BY <1>1, <1>2

\* What an Issue's place must leave for a reconciliation with new records to find it another.
Ripe(status, jobs, runs) ==
    /\ status = "Absent" => \A p \in Passes : jobs[p].status = "Absent"
    /\ status \in {"Open", "Absent"} =>
         NoRuns(runs) /\ \A p \in Passes : jobs[p].outcome \in {"None", "Failed"}
    /\ status = "Mitigating" =>
         \E p \in Passes, x \in Proposals : jobs[p].status # "Absent" /\ Stops(runs[p][x])
    /\ status \in {"Investigating", "Verifying"} => \E p \in Passes : jobs[p].status # "Absent"

\* A reconciliation finds the Issue a place: where the work leads, or where it was.
LEMMA Placing ==
    ASSUME NEW jobs, NEW runs,
           NEW status \in (IssueStatus \cup {"Absent"}) \ IssueTerminal,
           \A p \in Passes : Kept(jobs[p]),
           Ripe(status, jobs, runs)
    PROVE  LET next == Follows(status, jobs, runs)
           IN next \notin IssueTerminal =>
                Placed(next, jobs, runs) /\ (next = status \/ next \notin {"Open", "Absent"})
  <1> DEFINE d == DerivedFrom(jobs, runs)
             next == Follows(status, jobs, runs)
  <1>1. next = IF d \in IssueNext(status) THEN d ELSE status
    BY DEF Follows
  <1>2. CASE \A p \in Passes : jobs[p].status = "Absent"
    <2>1. d = "None"
      BY <1>2, NothingImplied
    <2>2. "None" \notin IssueNext(status)
      BY DEF IssueNext
    <2>3. next = status
      BY <1>1, <2>1, <2>2
    <2>4. status \in {"Open", "Absent", "WaitingForHuman"}
      BY <1>2 DEF Ripe, IssueStatus, IssueTerminal
    <2>5. \A p \in Passes : jobs[p].outcome = "None"
      BY <1>2 DEF Kept
    <2>6. Placed(status, jobs, runs)
      BY <1>2, <2>4, <2>5 DEF Placed, Ripe
    <2> QED
      BY <2>3, <2>6
  <1>3. CASE \E p \in Passes : jobs[p].status # "Absent"
    <2>1. /\ d \in {"Investigating", "Mitigating", "Verifying", "Resolved", "WaitingForHuman"}
          /\ d = "Mitigating" => SomeRun(jobs, runs, Acting)
          /\ d = "Verifying" => SomeRun(jobs, runs, {"Verifying"})
          /\ d = "Resolved" =>
               /\ \A p \in Passes, x \in Proposals :
                    jobs[p].status # "Absent" => ~Stops(runs[p][x])
               /\ \/ \E p \in Passes : jobs[p].outcome = "Solved"
                  \/ ~NoRuns(runs)
      BY <1>3, Implied
    <2>2. d \in IssueStatus => Placed(d, jobs, runs) /\ d \notin {"Open", "Absent"}
      BY DerivedPlaced
    <2> HIDE DEF d
    <2>3. status = "Open" => d \in {"Investigating", "WaitingForHuman"}
      BY <2>1 DEF Ripe, SomeRun, NoRuns, Acting
    <2>4. status = "Mitigating" => d # "Resolved"
      BY <2>1 DEF Ripe
    <2>5. status \in {"Open", "Investigating", "WaitingForHuman", "Mitigating", "Verifying"}
      BY <1>3 DEF IssueStatus, IssueTerminal, Ripe
    <2>6. next = d \/ next = "WaitingForHuman"
      BY <1>1, <2>1, <2>3, <2>4, <2>5 DEF IssueNext
    <2>7. Placed("WaitingForHuman", jobs, runs)
      BY DEF Placed
    <2> HIDE DEF next
    <2>8. d \in IssueStatus
      BY <2>1 DEF IssueStatus
    <2> QED
      BY <2>2, <2>6, <2>7, <2>8 DEF next
  <1> QED
    BY <1>2, <1>3

-----------------------------------------------------------------------------
(* What a step does to the records. *)

\* What a step makes of a run: what ended does not begin again, and what has not ended was not
\* decided against meanwhile.
Onward(r, s) ==
    s.status \in Early =>
      /\ r.status \in Early
      /\ ~r.reviewed => ~s.reviewed
      /\ r.approval # "Rejected" => s.approval # "Rejected"

\* A run is added by the request that proposes it, and by no other step.
Proposing(t, p, x) ==
    /\ task[t].pc = "propose" /\ task[t].todo # {}
    /\ p = task[t].pass /\ x = First(task[t].todo)
    /\ Propose(t) \/ WriteInterrupted(t)

Grown(runs) ==
    \A p \in Passes, x \in Proposals :
        run[p][x].status = "Absent" /\ runs[p][x].status # "Absent" =>
            \E t \in Tasks : Proposing(t, p, x)

RunsGo(runs) ==
    /\ runs \in RunsType /\ Grown(runs)
    /\ \A p \in Passes, x \in Proposals : Onward(run[p][x], runs[p][x])

JobsGo(jobs) ==
    /\ jobs \in JobsType
    /\ \A p \in Passes :
          Kept(jobs[p]) /\ (jobs[p].status = "Absent" <=> job[p].status = "Absent")

\* What keeps an Issue in Mitigating is there, or is seen by somebody.
Stays(old, runs) ==
    ~Closed => \A p \in Passes, x \in Proposals : old[p][x].status \in Acting => Stops(runs[p][x])

\* On an Issue where nothing was done, nothing is.
Calm(jobs, runs) ==
    Reliable /\ issue \in {"Open", "Absent"} =>
        NoRuns(runs) /\ \A p \in Passes : jobs[p].outcome \in {"None", "Failed"}

\* The records are reconciled, once or twice.
Lands(jobs, runs) ==
    \/ Stays(run, runs) /\ Calm(jobs, runs) /\ Reconciled(jobs, runs)
    \/ /\ Reliable => issue \notin {"Open", "Absent"}
       /\ jobs = job
       /\ \E between : /\ Stays(run, between) /\ Stays(between, runs)
                       /\ ReconciledTwice(between, job, runs)

\* The Issue is closed, or a handler is cut off over the records.
Leaves(jobs, runs) ==
    \/ \E status : CutIn(jobs, runs, status)
    \/ \E status \in IssueTerminal : Commit(jobs, runs, status) \/ CommitCutOff(jobs, runs, status)

\* The Issue is in its place after the step, and was not reopened.
IssueGoes ==
    Reliable' =>
        /\ Placed(issue', job', run')
        /\ issue' \notin {"Open", "Absent"} \/ (Reliable /\ issue \in {issue', "Absent"})

Goes == KeptInv' /\ RunsGo(run') /\ IssueGoes

\* A cancelled run has ended.
LEMMA CancelledGo ==
    ASSUME NEW runs, RunsGo(runs), NEW xs
    PROVE  RunsGo(CancelledRuns(runs, xs))
  <1> DEFINE after == CancelledRuns(runs, xs)
  <1>1. after \in RunsType
    <2>1. ASSUME NEW p \in Passes, NEW x \in Proposals
          PROVE  /\ runs[p][x] \in RunType
                 /\ [runs[p][x] EXCEPT !.status = "Cancelled"] \in RunType
      BY DEF RunsGo, RunsType, RunType, RunStatus
    <2> QED
      BY <2>1 DEF CancelledRuns, RunsType
  <1>2. ASSUME NEW p \in Passes, NEW x \in Proposals
        PROVE  after[p][x] = runs[p][x] \/ (after[p][x].status = "Cancelled" /\ runs[p][x].status # "Absent")
    <2>1. runs[p][x] \in RunType
      BY DEF RunsGo, RunsType
    <2>2. [runs[p][x] EXCEPT !.status = "Cancelled"].status = "Cancelled"
      BY <2>1 DEF RunType
    <2> QED
      BY <2>2 DEF CancelledRuns
  <1> HIDE DEF after
  <1>3. Grown(after)
    BY <1>2 DEF RunsGo, Grown
  <1>4. \A p \in Passes, x \in Proposals : Onward(run[p][x], after[p][x])
    BY <1>2 DEF RunsGo, Onward, Early, Acting
  <1> QED
    BY <1>1, <1>3, <1>4 DEF RunsGo, after

\* Records that are written go where they should, whether or not they are swept.
LEMMA WrittenGo ==
    ASSUME NEW jobs, NEW runs, JobsGo(jobs), RunsGo(runs),
           job' = jobs \/ \E js : job' = CancelledJobs(jobs, js),
           run' = runs \/ \E xs : run' = CancelledRuns(runs, xs)
    PROVE  KeptInv' /\ RunsGo(run')
  <1>1. ASSUME NEW js, NEW p \in Passes PROVE Kept(CancelledJobs(jobs, js)[p])
    <2>1. jobs[p] \in JobType /\ Kept(jobs[p])
      BY DEF JobsGo, JobsType
    <2>2. Kept([jobs[p] EXCEPT !.status = "Cancelled"])
      BY <2>1 DEF Kept, JobType
    <2> QED
      BY <2>1, <2>2 DEF CancelledJobs
  <1>2. KeptInv'
    BY <1>1 DEF KeptInv, JobsGo
  <1> QED
    BY <1>2, CancelledGo

\* A commit of records with the Issue in its place leaves it there.
LEMMA CommitPlaced ==
    ASSUME NEW jobs, NEW runs, NEW status \in IssueStatus \cup {"Absent"}, TypeInv, JobsGo(jobs),
           Commit(jobs, runs, status),
           ~cut.status /\ status \notin IssueTerminal =>
             /\ Placed(status, jobs, runs)
             /\ status \notin {"Open", "Absent"} \/ (Reliable /\ status = issue)
    PROVE  IssueGoes
  <1> SUFFICES ASSUME Reliable'
               PROVE  /\ Placed(issue', job', run')
                      /\ issue' \notin {"Open", "Absent"} \/ (Reliable /\ issue' = issue)
    BY DEF IssueGoes
  <1>1. issue' = status /\ status \notin IssueTerminal
    BY DEF Commit, Reliable, Closed
  <1>2. job' = jobs /\ run' = runs
    BY <1>1 DEF Commit
  <1>3. ~cut.status \/ status = DerivedFrom(jobs, runs)
    <2>1. cut \in CutType /\ ~cut'.status
      BY DEF TypeInv, Reliable
    <2>2. cut'.status = (cut.status /\ status # DerivedFrom(jobs, runs))
      BY <2>1 DEF Commit, CutType
    <2> QED
      BY <2>1, <2>2
  <1>4. CASE status = DerivedFrom(jobs, runs)
    BY <1>1, <1>2, <1>4, DerivedPlaced DEF JobsGo
  <1> QED
    BY <1>1, <1>2, <1>3, <1>4

\* A live Issue was live.
LEMMA LiveBefore ==
    ASSUME NEW jobs, NEW runs, NEW status \in IssueStatus \cup {"Absent"},
           Follows(status, jobs, runs) \notin IssueTerminal
    PROVE  status \notin IssueTerminal
  BY FollowsIssue

\* An Issue in its place is ripe for new records.
LEMMA PlacedRipe ==
    ASSUME NEW status, NEW old, NEW jobs, NEW before, NEW runs,
           Placed(status, old, before), ~Closed, Stays(before, runs),
           \A p \in Passes : jobs[p].status = "Absent" <=> old[p].status = "Absent",
           status \in {"Open", "Absent"} =>
             NoRuns(runs) /\ \A p \in Passes : jobs[p].outcome \in {"None", "Failed"}
    PROVE  Ripe(status, jobs, runs)
  <1>1. status = "Investigating" => \E p \in Passes : jobs[p].status # "Absent"
    BY DEF Placed, Underway
  <1>2. status = "Verifying" => \E p \in Passes : jobs[p].status # "Absent"
    BY DEF Placed, SomeRun
  <1>3. status = "Mitigating" =>
          \E p \in Passes, x \in Proposals : jobs[p].status # "Absent" /\ Stops(runs[p][x])
    BY DEF Placed, SomeRun, Stays
  <1>4. status = "Absent" => \A p \in Passes : jobs[p].status = "Absent"
    BY DEF Placed
  <1> QED
    BY <1>1, <1>2, <1>3, <1>4 DEF Ripe

\* Whatever lands leaves the Issue in its place.
LEMMA LandsRight ==
    ASSUME TypeInv, PlaceInv, NEW jobs, NEW runs, JobsGo(jobs), RunsGo(runs),
           Lands(jobs, runs)
    PROVE  Goes
  <1>1. issue \in IssueStatus \cup {"Absent"} /\ cut \in CutType
    BY DEF TypeInv
  <1>2. /\ job' = jobs \/ \E js : job' = CancelledJobs(jobs, js)
        /\ run' = runs \/ \E xs : run' = CancelledRuns(runs, xs)
    BY DEF Lands, Reconciled, ReconciledTwice, Commit
  <1>3. KeptInv' /\ RunsGo(run')
    BY <1>2, WrittenGo
  <1>4. CASE Stays(run, runs) /\ Calm(jobs, runs) /\ Reconciled(jobs, runs)
    <2> DEFINE next == Follows(issue, jobs, runs)
    <2>1. next \in IssueStatus \cup {"Absent"} /\ Commit(jobs, runs, next)
      BY <1>1, <1>4, FollowsIssue DEF Reconciled
    <2>2. ASSUME ~cut.status, next \notin IssueTerminal
          PROVE  /\ Placed(next, jobs, runs)
                 /\ next \notin {"Open", "Absent"} \/ (Reliable /\ next = issue)
      <3>1. issue \notin IssueTerminal
        BY <1>1, <2>2, LiveBefore
      <3>2. Reliable /\ Placed(issue, job, run)
        BY <2>2, <3>1 DEF PlaceInv, Reliable, Closed
      <3>3. Ripe(issue, jobs, runs)
        BY <1>4, <3>2, PlacedRipe DEF Calm, Reliable, JobsGo
      <3> QED
        BY <1>1, <2>2, <3>1, <3>2, <3>3, Placing DEF JobsGo
    <2> HIDE DEF next
    <2> QED
      BY <1>3, <2>1, <2>2, CommitPlaced DEF Goes
  <1>5. ASSUME NEW between, Stays(run, between), Stays(between, runs), jobs = job,
               Reliable => issue \notin {"Open", "Absent"},
               ReconciledTwice(between, job, runs)
        PROVE  Goes
    <2> DEFINE first == Follows(issue, job, between)
               next == Follows(first, job, runs)
    <2>1. first \in IssueStatus \cup {"Absent"}
      BY <1>1, FollowsIssue
    <2>2. next \in IssueStatus \cup {"Absent"} /\ Commit(jobs, runs, next)
      BY <1>5, <2>1, FollowsIssue DEF ReconciledTwice
    <2>3. ASSUME ~cut.status, next \notin IssueTerminal
          PROVE  /\ Placed(next, jobs, runs)
                 /\ next \notin {"Open", "Absent"} \/ (Reliable /\ next = issue)
      <3>1. first \notin IssueTerminal
        BY <2>1, <2>3, LiveBefore
      <3>2. issue \notin IssueTerminal
        BY <1>1, <3>1, LiveBefore
      <3>3. Reliable /\ Placed(issue, job, run)
        BY <2>3, <3>2 DEF PlaceInv, Reliable, Closed
      <3>4. Ripe(issue, job, between)
        BY <1>5, <3>3, PlacedRipe DEF Reliable
      <3>5. Placed(first, job, between) /\ first \notin {"Open", "Absent"}
        BY <1>1, <1>5, <3>1, <3>2, <3>3, <3>4, Placing DEF JobsGo
      <3> HIDE DEF first
      <3>6. Ripe(first, job, runs)
        BY <1>5, <3>3, <3>5, PlacedRipe DEF Reliable
      <3> QED
        BY <1>5, <2>1, <2>3, <3>1, <3>5, <3>6, Placing DEF JobsGo
    <2> HIDE DEF next
    <2> QED
      BY <1>3, <2>2, <2>3, CommitPlaced DEF Goes
  <1> QED
    BY <1>4, <1>5 DEF Lands

\* What is closed, or cut off, promises nothing of the Issue.
LEMMA LeavesRight ==
    ASSUME TypeInv, NEW jobs, NEW runs, JobsGo(jobs), RunsGo(runs), Leaves(jobs, runs)
    PROVE  Goes
  <1>1. cut \in CutType
    BY DEF TypeInv
  <1>2. /\ job' = jobs \/ \E js : job' = CancelledJobs(jobs, js)
        /\ run' = runs \/ \E xs : run' = CancelledRuns(runs, xs)
    BY DEF Leaves, CutIn, Commit, CommitCutOff
  <1>3. ASSUME NEW status, CutIn(jobs, runs, status) PROVE ~Reliable'
    BY <1>1, <1>3 DEF CutIn, CommitCutOff, CutType, Reliable, Closed
  <1>4. ASSUME NEW status \in IssueTerminal,
               Commit(jobs, runs, status) \/ CommitCutOff(jobs, runs, status)
        PROVE  ~Reliable'
    BY <1>4 DEF Commit, CommitCutOff, Reliable, Closed
  <1> QED
    BY <1>2, <1>3, <1>4, WrittenGo DEF Leaves, Goes, IssueGoes

\* The records as they are go where they should.
LEMMA SameGo ==
    ASSUME TypeInv, AttendInv
    PROVE  JobsGo(job) /\ RunsGo(run) /\ Stays(run, run) /\ Calm(job, run)
  <1>1. JobsGo(job)
    BY DEF JobsGo, TypeInv, AttendInv, KeptInv
  <1>2. RunsGo(run)
    BY DEF RunsGo, TypeInv, Grown, Onward
  <1>3. Stays(run, run)
    BY DEF Stays, Stops, Early, Acting
  <1>4. Calm(job, run)
    BY DEF Calm, AttendInv, PlaceInv, Placed, Reliable
  <1> QED
    BY <1>1, <1>2, <1>3, <1>4

\* One run is written.
LEMMA OneRunGo ==
    ASSUME TypeInv, AttendInv, NEW p \in Passes, NEW x \in Proposals, NEW k \in RunType,
           Onward(run[p][x], k),
           run[p][x].status = "Absent" =>
             k.status = "Absent" \/ \E t \in Tasks : Proposing(t, p, x)
    PROVE  /\ RunsGo(WithRun(p, x, k))
           /\ (run[p][x].status \in Acting => Stops(k)) => Stays(run, WithRun(p, x, k))
           /\ \A r : r.status \notin Acting => Stays(WithRun(p, x, r), WithRun(p, x, k))
  <1> DEFINE runs == WithRun(p, x, k)
  <1>1. /\ runs \in RunsType /\ runs[p][x] = k
        /\ \A q \in Passes, y \in Proposals : <<q, y>> # <<p, x>> => runs[q][y] = run[q][y]
    BY RunWrites
  <1>2. RunsGo(run) /\ Stays(run, run)
    BY SameGo
  <1>3. RunsGo(runs)
    <2>1. Grown(runs)
      BY <1>1, <1>2 DEF RunsGo, Grown
    <2>2. \A q \in Passes, y \in Proposals : Onward(run[q][y], runs[q][y])
      BY <1>1, <1>2 DEF RunsGo
    <2> QED
      BY <1>1, <2>1, <2>2 DEF RunsGo
  <1>4. ASSUME run[p][x].status \in Acting => Stops(k) PROVE Stays(run, runs)
    BY <1>1, <1>2, <1>4 DEF Stays
  <1>5. ASSUME NEW r, r.status \notin Acting PROVE Stays(WithRun(p, x, r), runs)
    <2>1. run \in RunsType
      BY DEF TypeInv
    <2>2. /\ WithRun(p, x, r)[p][x] = r
          /\ \A q \in Passes, y \in Proposals :
               <<q, y>> # <<p, x>> => WithRun(p, x, r)[q][y] = run[q][y]
      BY <2>1 DEF WithRun, RunsType
    <2> QED
      BY <1>1, <1>2, <1>5, <2>2 DEF Stays
  <1> QED
    BY <1>3, <1>4, <1>5

\* A run that is not there, on an Issue where nothing was done, is not decided on or executed.
LEMMA WorkIsKnown ==
    ASSUME AttendInv, NEW p \in Passes, NEW x \in Proposals, run[p][x].status # "Absent", Reliable
    PROVE  issue \notin {"Open", "Absent"}
  BY DEF AttendInv, PlaceInv, Placed, NoRuns

\* A result is written.
LEMMA ResultGo ==
    ASSUME TypeInv, AttendInv, NEW p \in Exist, ~Ended(p), NEW r \in ResultType,
           r.outcome \in Said, r.outcome \in JobOutcome
    PROVE  JobsGo(WithResult(p, r))
  <1> DEFINE jobs == WithResult(p, r)
             k == Completed(job[p], r)
  <1>1. p \in Passes /\ job[p] \in JobType /\ job[p].status # "Absent" /\ job \in JobsType
    BY DEF Exist, TypeInv, JobsType
  <1>2. jobs \in JobsType
    BY ResultWrites
  <1>3. jobs[p] = k /\ \A q \in Passes : q # p => jobs[q] = job[q]
    BY <1>1 DEF WithResult, JobsType
  <1>4. k.status = StatusOfOutcome(r.outcome) /\ k.outcome = r.outcome
    BY <1>1 DEF Completed, JobType
  <1> HIDE DEF k, jobs
  <1>5. Kept(k) /\ k.status # "Absent"
    BY <1>4 DEF Kept, StatusOfOutcome, JobOutcome
  <1>6. \A q \in Passes : Kept(job[q])
    BY DEF AttendInv, KeptInv
  <1> QED
    BY <1>1, <1>2, <1>3, <1>5, <1>6 DEF JobsGo, jobs

\* What a pass becomes without a result.
Mild(j, k) ==
    /\ k.outcome = j.outcome
    /\ k.status = j.status \/ (j.status # "Absent" /\ k.status \in {"Cancelled", "Superseded"})

\* It is still what was kept of it.
LEMMA MildKept ==
    ASSUME NEW j, NEW k, Kept(j), Mild(j, k)
    PROVE  Kept(k) /\ (k.status = "Absent" <=> j.status = "Absent")
  BY DEF Kept, Mild

\* A pass is cancelled, whatever its status was.
LEMMA CancelGo ==
    ASSUME TypeInv, AttendInv, NEW p \in Exist
    PROVE  JobsGo(WithCancel(p)) /\ \A q \in Passes : Mild(job[q], WithCancel(p)[q])
  <1>1. p \in Passes /\ job[p] \in JobType /\ job[p].status # "Absent" /\ job \in JobsType
    BY DEF Exist, TypeInv, JobsType
  <1>2. WithCancel(p) \in JobsType
    BY CancelWrites
  <1>3. Mild(job[p], [job[p] EXCEPT !.status = "Cancelled"]) /\ \A q \in Passes : Mild(job[q], job[q])
    BY <1>1 DEF Mild, JobType
  <1>4. /\ WithCancel(p)[p] \in {job[p], [job[p] EXCEPT !.status = "Cancelled"]}
        /\ \A q \in Passes : q # p => WithCancel(p)[q] = job[q]
    BY <1>1 DEF WithCancel, JobsType
  <1>5. \A q \in Passes : Mild(job[q], WithCancel(p)[q])
    BY <1>3, <1>4
  <1> QED
    BY <1>2, <1>5, MildKept DEF JobsGo, AttendInv, KeptInv

\* A run nobody decided against has nothing to review.
LEMMA FreshRuns ==
    ASSUME AttendInv, NEW p \in Passes, NEW x \in Proposals, run[p][x].status \in Early
    PROVE  /\ ~run[p][x].reviewed /\ run[p][x].approval # "Rejected"
           /\ ~SentBack(job, p, x) /\ \A t \in Tasks : ~SendsBack(t, p, x)
           /\ ~RunNeedsReview(run[p][x])
  <1>1. /\ ~run[p][x].reviewed /\ run[p][x].approval # "Rejected"
        /\ ~SentBack(job, p, x) /\ \A t \in Tasks : ~SendsBack(t, p, x)
    BY DEF AttendInv, Fresh
  <1>2. ~RunNeedsReview(run[p][x])
    BY <1>1 DEF RunNeedsReview, Denied, HasFailed, Early, Acting
  <1> QED
    BY <1>1, <1>2

\* A review is recorded.
LEMMA ReviewGo ==
    ASSUME TypeInv, AttendInv, NEW p \in Exist, NEW item \in Items, NeedsReview(p, item)
    PROVE  LET jobs == JobReviewed(p, item)
               runs == RunReviewed(p, item)
           IN JobsGo(jobs) /\ RunsGo(runs) /\ Stays(run, runs) /\ Calm(jobs, runs)
  <1> DEFINE jobs == JobReviewed(p, item)
             runs == RunReviewed(p, item)
  <1>1. p \in Passes /\ job[p] \in JobType /\ job \in JobsType /\ jobs \in JobsType
    BY ReviewWrites DEF Exist, TypeInv, JobsType
  <1>2. ASSUME NEW q \in Passes PROVE Mild(job[q], jobs[q])
    <2>1. Mild(job[p], [job[p] EXCEPT !.reviewed = TRUE]) /\ Mild(job[q], job[q])
      BY <1>1 DEF Mild, JobType
    <2>2. jobs[q] = job[q] \/ (q = p /\ jobs[q] = [job[p] EXCEPT !.reviewed = TRUE])
      BY <1>1 DEF JobReviewed, JobsType
    <2> QED
      BY <2>1, <2>2
  <1>3. JobsGo(jobs)
    BY <1>1, <1>2, MildKept DEF JobsGo, AttendInv, KeptInv
  <1>4. RunsGo(runs) /\ Stays(run, runs)
    <2>1. CASE item = 0
      BY <2>1, SameGo DEF RunReviewed
    <2>2. CASE item # 0
      <3>1. item \in Proposals /\ run[p][item] \in RunType /\ RunNeedsReview(run[p][item])
        BY <1>1, <2>2 DEF NeedsReview, RunsOf, TypeInv, RunsType
      <3>2. runs = WithRun(p, item, AfterReview(run[p][item]))
        BY <2>2 DEF RunReviewed, WithRun
      <3>3. run[p][item].status \notin Early
        BY <1>1, <3>1, FreshRuns
      <3>4. AfterReview(run[p][item]) \in RunType
        BY <3>1, AfterReviewType
      <3>5. AfterReview(run[p][item]).status \notin Early
        BY <3>1, <3>3, AfterReviewType DEF Early, Acting
      <3>6. Onward(run[p][item], AfterReview(run[p][item]))
        BY <3>5 DEF Onward
      <3>7. run[p][item].status \notin Acting \cup {"Absent"}
        BY <3>3 DEF Early
      <3> QED
        BY <1>1, <3>1, <3>2, <3>4, <3>6, <3>7, OneRunGo
    <2> QED
      BY <2>1, <2>2
  <1>5. Calm(jobs, runs)
    <2>1. ASSUME Reliable, issue \in {"Open", "Absent"}, item # 0 PROVE FALSE
      BY <1>1, <2>1, WorkIsKnown DEF NeedsReview, RunsOf
    <2>2. item = 0 => runs = run
      BY DEF RunReviewed
    <2>3. Calm(job, run)
      BY SameGo
    <2> QED
      BY <1>2, <2>1, <2>2, <2>3 DEF Calm, Mild
  <1> QED
    BY <1>3, <1>4, <1>5

-----------------------------------------------------------------------------
(* The same, action by action. *)

\* No run and no Issue is written, and no pass that runs ends on a live Issue.
LEMMA SteadyGoes ==
    ASSUME TypeInv, AttendInv, UNCHANGED <<run, issue>>, cut'.status = cut.status,
           \A p \in Passes : Mild(job[p], job'[p]),
           ~Closed => \A p \in Passes : job[p].status = "Running" => job'[p].status = "Running"
    PROVE  Goes
  <1>1. \A p \in Passes : Kept(job'[p]) /\ (job'[p].status = "Absent" <=> job[p].status = "Absent")
    BY MildKept DEF AttendInv, KeptInv
  <1>2. RunsGo(run')
    BY SameGo
  <1>3. ASSUME Reliable' PROVE Placed(issue', job', run')
    <2>1. Reliable /\ Placed(issue, job, run)
      BY <1>3 DEF Reliable, Closed, AttendInv, PlaceInv
    <2>2. Underway(job) => Underway(job')
      BY <2>1 DEF Underway, Reliable
    <2>3. \A s : SomeRun(job, run, s) => SomeRun(job', run', s)
      BY <1>1 DEF SomeRun
    <2>4. \A p \in Passes : job'[p].outcome = job[p].outcome
      BY DEF Mild
    <2> QED
      BY <1>1, <2>1, <2>2, <2>3, <2>4 DEF Placed
  <1>4. Reliable' => Reliable
    BY DEF Reliable, Closed
  <1> QED
    BY <1>1, <1>2, <1>3, <1>4 DEF Goes, KeptInv, IssueGoes

\* Nothing is written.
LEMMA UntouchedGoes ==
    ASSUME TypeInv, AttendInv, UNCHANGED <<job, run, issue>>, cut'.status = cut.status
    PROVE  Goes
  BY SteadyGoes DEF Mild

\* One pass is written.
LEMMA OneSteady ==
    ASSUME TypeInv, AttendInv, UNCHANGED <<run, issue, cut>>, NEW p \in Exist, NEW k,
           job' = [job EXCEPT ![p] = k], Mild(job[p], k),
           ~Closed /\ job[p].status = "Running" => k.status = "Running"
    PROVE  Goes
  <1>1. p \in Passes /\ job'[p] = k /\ \A q \in Passes : q # p => job'[q] = job[q]
    BY DEF TypeInv, JobsType, Exist
  <1>2. \A q \in Passes : Mild(job[q], job[q])
    BY DEF Mild
  <1> QED
    BY <1>1, <1>2, SteadyGoes

\* Neither of these writes a run, or ends a pass of a live Issue.
LEMMA PassGoes ==
    ASSUME TypeInv, AttendInv, CarryInv, NEW t \in Tasks,
           \/ Run(t) \/ Deliver(t) \/ TeamFails(t) \/ Fallback(t) \/ Drive(t)
           \/ SupersedeInterrupted(t)
    PROVE  Goes
  <1> DEFINE p == task[t].pass
  <1>1. task[t].pc \in OfPass /\ UNCHANGED <<run, issue, cut>>
    BY DEF Run, Deliver, TeamFails, Fallback, Drive, SupersedeInterrupted, At, OfPass
  <1>2. p \in Exist /\ p \in Passes /\ job[p] \in JobType /\ job[p].status # "Absent"
    BY <1>1, BriefOf DEF Exist
  <1>3. CASE UNCHANGED job
    BY <1>1, <1>3, UntouchedGoes
  <1>4. CASE job' = [job EXCEPT ![p].begun = TRUE]
    <2>1. Mild(job[p], [job[p] EXCEPT !.begun = TRUE])
      BY <1>2 DEF Mild, JobType
    <2>2. [job[p] EXCEPT !.begun = TRUE].status = job[p].status
      BY <1>2 DEF JobType
    <2> QED
      BY <1>1, <1>2, <1>4, <2>1, <2>2, OneSteady
  <1>5. CASE job' = [job EXCEPT ![p].heard = TRUE]
    <2>1. Mild(job[p], [job[p] EXCEPT !.heard = TRUE])
      BY <1>2 DEF Mild, JobType
    <2>2. [job[p] EXCEPT !.heard = TRUE].status = job[p].status
      BY <1>2 DEF JobType
    <2> QED
      BY <1>1, <1>2, <1>5, <2>1, <2>2, OneSteady
  <1>6. CASE Closed /\ job' = [job EXCEPT ![p].status = "Cancelled"]
    <2>1. Mild(job[p], [job[p] EXCEPT !.status = "Cancelled"])
      BY <1>2 DEF Mild, JobType
    <2> QED
      BY <1>1, <1>2, <1>6, <2>1, OneSteady
  <1>7. CASE SupersedeInterrupted(t)
    <2>1. task[t].pc = "supersede" /\ job' = [job EXCEPT ![p].status = "Superseded"]
      BY <1>7 DEF SupersedeInterrupted, At, Superseded
    <2>2. job[p].status # "Running"
      BY <1>2, <2>1 DEF CarryInv
    <2>3. Mild(job[p], [job[p] EXCEPT !.status = "Superseded"])
      BY <1>2 DEF Mild, JobType
    <2> QED
      BY <1>1, <1>2, <2>1, <2>2, <2>3, OneSteady
  <1>8. CASE Run(t) \/ Deliver(t) \/ TeamFails(t) \/ Fallback(t) \/ Drive(t)
    <2>1. \/ UNCHANGED job
          \/ job' = [job EXCEPT ![p].begun = TRUE]
          \/ job' = [job EXCEPT ![p].heard = TRUE]
          \/ Closed /\ job' = [job EXCEPT ![p].status = "Cancelled"]
      BY <1>8 DEF Run, Deliver, TeamFails, Fallback, Drive, StillWanted
    <2> QED
      BY <1>3, <1>4, <1>5, <1>6, <2>1
  <1> QED
    BY <1>7, <1>8

\* What a place of a request says of the Issue.
LEMMA SeatOf ==
    ASSUME AttendInv, NEW t \in Tasks
    PROVE  /\ task[t].pc = "apply" => task[t].result \in Results
           /\ task[t].pc # "idle" /\ Reliable => issue # "Absent"
           /\ task[t].pc \notin {"idle", "create"} /\ Reliable => issue # "Open"
  BY DEF AttendInv, SeatInv, Seated

\* What a Team says may be recorded.
LEMMA SaidIs ==
    ASSUME ChainConstants, NEW r \in Results
    PROVE  /\ Clamped(r) \in ResultType
           /\ Clamped(r).outcome \in Said /\ Clamped(r).outcome \in JobOutcome
  <1>1. r \in ResultType /\ r.outcome \in JobOutcome /\ r.outcome \in Said
    BY DEF ChainConstants, ResultType, Said
  <1>2. [r EXCEPT !.outcome = "DiagnosisOnly"].outcome = "DiagnosisOnly"
    BY <1>1 DEF ResultType
  <1>3. Clamped(r).outcome \in Said /\ Clamped(r).outcome \in JobOutcome
    BY <1>1, <1>2 DEF Clamped, Said, JobOutcome
  <1> QED
    BY <1>1, <1>3, ClampedType

\* The failure that is recorded in a result's place is such a word too.
LEMMA FailureSaid ==
    ASSUME ChainConstants
    PROVE  Failure \in ResultType /\ Failure.outcome \in Said /\ Failure.outcome \in JobOutcome
  <1>1. Failure.outcome = "Failed"
    BY DEF Failure, NoResult
  <1> QED
    BY <1>1, FailureType DEF Said, JobOutcome

\* A result, or the failure in its place, is recorded.
LEMMA ApplyGoes ==
    ASSUME ChainConstants, TypeInv, AttendInv, NEW t \in Tasks, Apply(t) \/ Late(t)
    PROVE  Goes
  <1> DEFINE p == task[t].pass
  <1>1. task[t].pc \in {"apply", "late"} /\ p \in Exist
    BY BriefOf DEF Apply, Late, At, OfPass
  <1>2. CASE UNCHANGED <<job, run, issue, cut>>
    BY <1>2, UntouchedGoes
  <1>3. ASSUME NEW r \in ResultType, r.outcome \in Said, r.outcome \in JobOutcome, ~Ended(p),
               Reconciled(WithResult(p, r), run)
        PROVE  Goes
    <2>1. JobsGo(WithResult(p, r)) /\ RunsGo(run) /\ Stays(run, run)
      BY <1>1, <1>3, ResultGo, SameGo
    <2>2. Calm(WithResult(p, r), run)
      BY <1>1, SeatOf DEF Calm
    <2> QED
      BY <1>3, <2>1, <2>2, LandsRight DEF Lands, AttendInv
  <1>4. CASE Apply(t) /\ Unchanged(p)
    <2>1. task[t].result \in Results /\ Reconciled(WithResult(p, Clamped(task[t].result)), run)
      BY <1>4, SeatOf DEF Apply, At
    <2> QED
      BY <1>1, <1>3, <1>4, <2>1, NotEndedYet, SaidIs
  <1>5. CASE Late(t) /\ MayFail(p)
    <2>1. Reconciled(WithResult(p, Failure), run)
      BY <1>5 DEF Late
    <2> QED
      BY <1>1, <1>3, <1>5, <2>1, NotEndedYet, FailureSaid
  <1> QED
    BY <1>2, <1>4, <1>5 DEF Apply, Late

\* What a proposal may become before anything executes.
LEMMA ProposedIs ==
    ASSUME NEW row
    PROVE  LET d == Decided(row)
           IN /\ d \in RunType /\ NewRun \in RunType
              /\ \A r : r.status = "Absent" => Onward(r, d) /\ Onward(r, NewRun)
  <1> DEFINE d == Decided(row)
  <1>1. d \in RunType /\ NewRun \in RunType
    BY DecidedType DEF NewRun, NoRun, RunType, RunStatus, Approval, Evidence
  <1>2. ~d.reviewed /\ (d.approval = "Rejected" => d.status = "Cancelled")
    BY DEF Decided, NewRun, NoRun
  <1>3. ~NewRun.reviewed /\ NewRun.approval # "Rejected"
    BY DEF NewRun, NoRun
  <1> HIDE DEF d
  <1> QED
    BY <1>1, <1>2, <1>3 DEF Onward, Early, Acting, d

\* The proposal that is next has no run yet.
LEMMA NextIsBlank ==
    ASSUME ChainConstants, TypeInv, AttendInv, NEW t \in Tasks,
           task[t].pc = "propose", task[t].todo # {}
    PROVE  LET p == task[t].pass
               x == First(task[t].todo)
           IN p \in Exist /\ p \in Passes /\ x \in Proposals /\ run[p][x].status = "Absent"
  <1> DEFINE x == First(task[t].todo)
  <1>1. task[t].pass \in Exist /\ task[t].pass \in Passes
    BY BriefOf DEF OfPass
  <1>2. x \in task[t].todo /\ x \in Proposals
    BY BriefOf, FirstIsThere DEF TaskType
  <1>3. Own(t) /\ Untried(t) = task[t].todo
    BY DEF Own, Untried, Before
  <1> QED
    BY <1>1, <1>2, <1>3 DEF AttendInv, Blank

\* A proposal is decided.
LEMMA ProposeGoes ==
    ASSUME ChainConstants, TypeInv, AttendInv, NEW t \in Tasks, Propose(t)
    PROVE  Goes
  <1> DEFINE p == task[t].pass
             x == First(task[t].todo)
  <1>1. task[t].pc = "propose" /\ task[t].todo # {}
    BY DEF Propose, At
  <1>2. CASE UNCHANGED <<job, run, issue, cut>>
    BY <1>2, UntouchedGoes
  <1>3. ASSUME NEW row \in Rows, Reconciled(job, WithRun(p, x, Decided(row)))
        PROVE  Goes
    <2>1. p \in Passes /\ x \in Proposals /\ run[p][x].status = "Absent"
      BY <1>1, NextIsBlank
    <2>2. Proposing(t, p, x)
      BY <1>1 DEF Proposing
    <2>3. Decided(row) \in RunType /\ Onward(run[p][x], Decided(row))
      BY <2>1, ProposedIs
    <2>4. run[p][x].status \notin Acting
      BY <2>1 DEF Acting
    <2> HIDE DEF x
    <2>5. RunsGo(WithRun(p, x, Decided(row))) /\ Stays(run, WithRun(p, x, Decided(row)))
      BY <2>1, <2>2, <2>3, <2>4, OneRunGo
    <2>6. Calm(job, WithRun(p, x, Decided(row)))
      BY <1>1, SeatOf DEF Calm
    <2> QED
      BY <1>3, <2>5, <2>6, SameGo, LandsRight DEF Lands, AttendInv
  <1> QED
    BY <1>2, <1>3 DEF Propose

\* What an execution makes of a run that was ready for it.
LEMMA SettledIs ==
    ASSUME ChainConstants, NEW r \in RunType, r.status \in Early \ {"Absent"}, ~r.reviewed,
           NEW effect \in Effects \cup {"None", "Failed", "VerificationFailed"}
    PROVE  LET s == Settled(r, effect)
           IN /\ s \in RunType /\ Onward(r, s) /\ s.status \notin Acting \cup {"Absent"}
              /\ effect \in {"None", "Failed"} => Stops(s)
  <1> DEFINE s == Settled(r, effect)
  <1>1. s \in RunType
    BY SettledType
  <1>2. /\ s.reviewed = r.reviewed /\ s.approval = r.approval
        /\ s.status \in {"Verifying", "Succeeded", "Failed", "VerificationFailed"}
        /\ effect \in {"None", "Failed"} => s.status \in {"Verifying", "Failed"}
    BY DEF Settled, RunType
  <1> HIDE DEF s
  <1>3. effect \in {"None", "Failed"} => Stops(s)
    BY <1>2 DEF Stops, Early, Acting, RunNeedsReview, HasFailed
  <1> QED
    BY <1>1, <1>2, <1>3 DEF Onward, Early, Acting, s

\* A run is executed.
LEMMA ExecuteGoes ==
    ASSUME ChainConstants, TypeInv, AttendInv, NEW t \in Tasks, Execute(t)
    PROVE  Goes
  <1> DEFINE p == Target(t)[1]
             x == Target(t)[2]
             r == run[p][x]
  <1>1. task[t].pc = "execute"
    BY DEF Execute, At
  <1>2. p \in Passes /\ x \in Proposals /\ r \in RunType
    BY <1>1, TargetIsThere DEF TypeInv, RunsType
  <1>3. CASE UNCHANGED <<job, run, issue, cut>>
    BY <1>3, UntouchedGoes
  <1>4. ASSUME NEW effect \in Effects, r.status = "Ready",
               ReconciledTwice(WithRun(p, x, Returned(r, effect)),
                               job, WithRun(p, x, Settled(r, effect)))
        PROVE  Goes
    <2> DEFINE v == Returned(r, effect)
               s == Settled(r, effect)
    <2>1. r.status \in Early \ {"Absent"} /\ ~r.reviewed
      BY <1>2, <1>4, FreshRuns DEF Early, Acting
    <2>2. /\ v \in RunType /\ Onward(r, v) /\ v.status \notin Acting \cup {"Absent"} /\ Stops(v)
      BY <1>2, <2>1, SettledIs DEF Returned
    <2>3. s \in RunType /\ Onward(r, s)
      BY <1>2, <2>1, SettledIs
    <2> HIDE DEF v, s
    <2>4. r.status # "Absent"
      BY <2>1
    <2>5. Stays(run, WithRun(p, x, v))
      BY <1>2, <2>2, <2>4, OneRunGo
    <2>6. RunsGo(WithRun(p, x, s)) /\ Stays(WithRun(p, x, v), WithRun(p, x, s))
      BY <1>2, <2>2, <2>3, <2>4, OneRunGo
    <2>7. ReconciledTwice(WithRun(p, x, v), job, WithRun(p, x, s))
      BY <1>4 DEF v, s
    <2>8. Reliable => issue \notin {"Open", "Absent"}
      BY <1>1, SeatOf
    <2> QED
      BY <2>5, <2>6, <2>7, <2>8, SameGo, LandsRight DEF Lands, AttendInv
  <1> QED
    BY <1>3, <1>4 DEF Execute

\* The records are reconciled as they are.
LEMMA StopGoes ==
    ASSUME TypeInv, AttendInv, NEW t \in Tasks, Stop(t)
    PROVE  Goes
  <1>1. Reconciled(job, run)
    BY DEF Stop
  <1> QED
    BY <1>1, SameGo, LandsRight DEF Lands, AttendInv

\* A review is recorded, and the revision goes on.
LEMMA ReviewedGoes ==
    ASSUME TypeInv, AttendInv, Acknowledge \/ \E t \in Tasks : Record(t)
    PROVE  Goes
  <1>1. ASSUME NEW p \in Exist, NEW item \in Items, NeedsReview(p, item), Reviewed(p, item)
        PROVE  Goes
    <2>1. /\ JobsGo(JobReviewed(p, item)) /\ RunsGo(RunReviewed(p, item))
          /\ Stays(run, RunReviewed(p, item)) /\ Calm(JobReviewed(p, item), RunReviewed(p, item))
      BY <1>1, ReviewGo
    <2> QED
      BY <1>1, <2>1, LandsRight DEF Lands, AttendInv, Reviewed
  <1>2. CASE Acknowledge
    BY <1>1, <1>2 DEF Acknowledge
  <1>3. ASSUME NEW t \in Tasks, Record(t) PROVE Goes
    <2>1. task[t].brief.from \in Exist /\ task[t].brief.item \in Items
      BY <1>3, BriefOf DEF Record, At, Fits, BriefType
    <2> QED
      BY <1>1, <1>3, <2>1, UntouchedGoes DEF Record
  <1> QED
    BY <1>2, <1>3

\* A pass is cancelled by its guard.
LEMMA AbandonGoes ==
    ASSUME TypeInv, AttendInv, NEW t \in Tasks, Abandon(t)
    PROVE  Goes
  <1> DEFINE p == task[t].pass
  <1>1. task[t].pc = "abandon" /\ p \in Exist /\ Reconciled(WithCancel(p), run)
    BY BriefOf DEF Abandon, At, OfPass
  <1>2. JobsGo(WithCancel(p))
    BY <1>1, CancelGo
  <1>3. Calm(WithCancel(p), run)
    BY <1>1, SeatOf DEF Calm
  <1> QED
    BY <1>1, <1>2, <1>3, SameGo, LandsRight DEF Lands, AttendInv

\* A decision on a run that is held.
LEMMA DecisionGo ==
    ASSUME TypeInv, AttendInv, NEW p \in Exist, NEW x \in RunsOf(p), Held(p, x),
           NEW runs \in {WithApproval(p, x), WithRejection(p, x)}
    PROVE  RunsGo(runs) /\ Stays(run, runs) /\ Calm(job, runs)
  <1> DEFINE r == run[p][x]
             yes == [r EXCEPT !.status = "Ready", !.approval = "Approved"]
             no == [r EXCEPT !.status = "Cancelled", !.approval = "Rejected"]
  <1>1. /\ p \in Passes /\ x \in Proposals /\ run \in RunsType
        /\ r \in RunType /\ r.status = "WaitingForApproval"
    BY DEF Exist, RunsOf, TypeInv, RunsType, Held
  <1>2. yes \in RunType /\ no \in RunType
    BY <1>1 DEF RunType, RunStatus, Approval
  <1>3. Onward(r, yes) /\ Onward(r, no)
    BY <1>1 DEF Onward, Early, Acting, RunType
  <1>4. WithApproval(p, x) = WithRun(p, x, yes) /\ WithRejection(p, x) = WithRun(p, x, no)
    BY <1>1 DEF WithApproval, WithRejection, WithRun, RunsType, RunType
  <1>5. r.status # "Absent" /\ r.status \notin Acting
    BY <1>1 DEF Acting
  <1> HIDE DEF yes, no
  <1>6. RunsGo(runs) /\ Stays(run, runs)
    BY <1>1, <1>2, <1>3, <1>4, <1>5, OneRunGo
  <1>7. Calm(job, runs)
    BY <1>1, <1>5, WorkIsKnown DEF Calm
  <1> QED
    BY <1>6, <1>7

\* A human decides on a run.
LEMMA DecidedGoes ==
    ASSUME TypeInv, AttendInv, Reject \/ \E t \in Tasks : Approve(t)
    PROVE  Goes
  <1>1. \E p \in Exist : \E x \in RunsOf(p) :
           /\ Held(p, x)
           /\ \E runs \in {WithApproval(p, x), WithRejection(p, x)} : Reconciled(job, runs)
    BY DEF Reject, Approve
  <1> QED
    BY <1>1, DecisionGo, SameGo, LandsRight DEF Lands, AttendInv

\* A human closes the Issue.
LEMMA CloseGoes ==
    ASSUME ChainConstants, TypeInv, AttendInv, Close
    PROVE  Goes
  <1>1. \E outcome \in IssueTerminal : Commit(job, run, outcome)
    BY DEF Close, ChainConstants
  <1> QED
    BY <1>1, SameGo, LeavesRight DEF Leaves

\* What is cut off over records that go where they should.
LEMMA CutInGoes ==
    ASSUME TypeInv, AttendInv, NEW jobs, NEW runs, NEW status, JobsGo(jobs), RunsGo(runs),
           CutIn(jobs, runs, status)
    PROVE  Goes
  BY LeavesRight DEF Leaves

\* An execution is cut off.
LEMMA RunCutInGoes ==
    ASSUME ChainConstants, TypeInv, AttendInv, NEW p \in Passes, NEW x \in Proposals,
           run[p][x].status = "Ready", RunCutIn(p, x)
    PROVE  Goes
  <1> DEFINE r == run[p][x]
             begun == Follows(issue, job, WithRun(p, x, Settled(r, "None")))
             started == [r EXCEPT !.status = "Running"]
  <1>1. r \in RunType /\ r.status \in Early \ {"Absent"} /\ ~r.reviewed
    BY FreshRuns DEF TypeInv, RunsType, Early, Acting
  <1>2. ASSUME NEW k \in RunType, Onward(r, k), NEW status, CutIn(job, WithRun(p, x, k), status)
        PROVE  Goes
    <2>1. RunsGo(WithRun(p, x, k))
      BY <1>1, <1>2, OneRunGo
    <2> QED
      BY <1>2, <2>1, SameGo, CutInGoes
  <1>3. started \in RunType /\ Onward(r, started)
    <2>1. started \in RunType /\ started.reviewed = r.reviewed /\ started.approval = r.approval
      BY <1>1 DEF RunType, RunStatus
    <2> QED
      BY <1>1, <2>1 DEF Onward
  <1>4. ASSUME NEW effect \in Effects \cup {"None", "Failed"}
        PROVE  Settled(r, effect) \in RunType /\ Onward(r, Settled(r, effect))
    BY <1>1, SettledIs
  <1>5. ASSUME NEW effect \in Effects
        PROVE  Returned(r, effect) \in RunType /\ Onward(r, Returned(r, effect))
    BY <1>4 DEF Returned
  <1>6. \/ CutIn(job, WithRun(p, x, started), issue)
        \/ \E effect \in Effects : CutIn(job, WithRun(p, x, Returned(r, effect)), issue)
        \/ \E verdict \in Effects \cup {"None"} : CutIn(job, WithRun(p, x, Settled(r, verdict)), begun)
    BY DEF RunCutIn
  <1> HIDE DEF begun, r, started
  <1> QED
    BY <1>2, <1>3, <1>4, <1>5, <1>6

\* A proposal is cut off.
LEMMA ProposalCutInGoes ==
    ASSUME ChainConstants, TypeInv, AttendInv, NEW t \in Tasks, WriteInterrupted(t),
           task[t].pc = "propose", task[t].todo # {},
           ProposalCutIn(task[t].pass, First(task[t].todo))
    PROVE  Goes
  <1> DEFINE p == task[t].pass
             x == First(task[t].todo)
  <1>1. p \in Passes /\ x \in Proposals /\ run[p][x].status = "Absent"
    BY NextIsBlank
  <1>2. Proposing(t, p, x)
    BY DEF Proposing
  <1>3. PICK k : /\ k \in {NewRun} \cup {Decided(row) : row \in Rows}
                 /\ CutIn(job, WithRun(p, x, k), issue)
    BY DEF ProposalCutIn
  <1>4. k \in RunType /\ Onward(run[p][x], k)
    BY <1>1, <1>3, ProposedIs
  <1> HIDE DEF x
  <1>5. RunsGo(WithRun(p, x, k))
    BY <1>1, <1>2, <1>4, OneRunGo
  <1> QED
    BY <1>3, <1>5, SameGo, CutInGoes

\* A request is cut off in what it writes.
LEMMA WriteInterruptedGoes ==
    ASSUME ChainConstants, TypeInv, AttendInv, NEW t \in Tasks, WriteInterrupted(t)
    PROVE  Goes
  <1> DEFINE p == task[t].pass
             b == task[t].brief
  <1>1. JobsGo(job) /\ RunsGo(run)
    BY SameGo
  <1>2. task[t].pc \in OfPass => p \in Exist /\ p \in Passes
    BY BriefOf
  <1>3. ASSUME NEW r \in ResultType, r.outcome \in Said, r.outcome \in JobOutcome,
               p \in Exist, ~Ended(p), CutIn(WithResult(p, r), run, issue)
        PROVE  Goes
    BY <1>1, <1>3, ResultGo, CutInGoes
  <1>5. CASE /\ task[t].pc = "apply" /\ Unchanged(p)
             /\ CutIn(WithResult(p, Clamped(task[t].result)), run, issue)
    <2>1. task[t].result \in Results /\ p \in Exist
      BY <1>2, <1>5, SeatOf DEF OfPass
    <2> QED
      BY <1>3, <1>5, <2>1, NotEndedYet, SaidIs
  <1>6. CASE task[t].pc = "late" /\ MayFail(p) /\ CutIn(WithResult(p, Failure), run, issue)
    <2>1. p \in Exist
      BY <1>2, <1>6 DEF OfPass
    <2> QED
      BY <1>3, <1>6, <2>1, NotEndedYet, FailureSaid
  <1>7. CASE /\ task[t].pc = "propose" /\ task[t].todo # {}
             /\ ProposalCutIn(p, First(task[t].todo))
    BY <1>7, ProposalCutInGoes
  <1>8. CASE CutIn(job, run, issue)
    BY <1>1, <1>8, CutInGoes
  <1>9. CASE /\ task[t].pc = "execute" /\ run[Target(t)[1]][Target(t)[2]].status = "Ready"
             /\ RunCutIn(Target(t)[1], Target(t)[2])
    <2>1. Target(t)[1] \in Passes /\ Target(t)[2] \in Proposals
      BY <1>9, TargetIsThere
    <2> QED
      BY <1>9, <2>1, RunCutInGoes
  <1>10. CASE /\ task[t].pc = "record" /\ NeedsReview(b.from, b.item)
              /\ CutIn(JobReviewed(b.from, b.item), RunReviewed(b.from, b.item), issue)
    <2>1. b.from \in Exist /\ b.item \in Items
      BY <1>10, BriefOf DEF Fits, BriefType
    <2> QED
      BY <1>10, <2>1, ReviewGo, CutInGoes
  <1>11. CASE task[t].pc = "abandon" /\ CutIn(WithCancel(p), run, issue)
    <2>1. p \in Exist
      BY <1>2, <1>11 DEF OfPass
    <2> QED
      BY <1>1, <1>11, <2>1, CancelGo, CutInGoes
  <1> QED
    BY <1>5, <1>6, <1>7, <1>8, <1>9, <1>10, <1>11 DEF WriteInterrupted, HalfWritten

\* A decision or a closure is cut off.
LEMMA DecisionInterruptedGoes ==
    ASSUME ChainConstants, TypeInv, AttendInv, DecisionInterrupted
    PROVE  Goes
  <1>1. ASSUME NEW p \in Exist, NEW x \in RunsOf(p), Held(p, x),
               NEW runs \in {WithApproval(p, x), WithRejection(p, x)}, CutIn(job, runs, issue)
        PROVE  Goes
    BY <1>1, DecisionGo, SameGo, CutInGoes
  <1>2. ASSUME NEW p \in Exist, NEW item \in Items, NeedsReview(p, item),
               CutIn(JobReviewed(p, item), RunReviewed(p, item), issue)
        PROVE  Goes
    BY <1>2, ReviewGo, CutInGoes
  <1>3. ASSUME NEW outcome \in Closings, CommitCutOff(job, run, outcome)
        PROVE  Goes
    BY <1>3, SameGo, LeavesRight DEF Leaves, ChainConstants
  <1> QED
    BY <1>1, <1>2, <1>3 DEF DecisionInterrupted

\* What a restart makes of the passes it finds.
LEMMA RestartJobs ==
    ASSUME TypeInv, AttendInv, NEW found \in {job, CancelledJobs(job, Passes)}
    PROVE  LET last == WithReviews(Interrupted(found))
           IN /\ JobsGo(last)
              /\ \A p \in Passes : last[p].outcome \in {job[p].outcome, "Failed"}
  <1> DEFINE jobs == Interrupted(found)
             last == WithReviews(jobs)
  <1>1. job \in JobsType /\ run \in RunsType
    BY DEF TypeInv
  <1>2. found \in JobsType
    BY <1>1, CancelledRecords
  <1>3. jobs \in JobsType
    BY <1>2, InterruptedPasses
  <1>4. last \in JobsType
    BY <1>3, ReviewedPasses
  <1>5. ASSUME NEW p \in Passes
        PROVE  Kept(last[p]) /\ (last[p].status = "Absent" <=> job[p].status = "Absent")
               /\ last[p].outcome \in {job[p].outcome, "Failed"}
    <2>1. job[p] \in JobType /\ Kept(job[p])
      BY <1>1 DEF AttendInv, KeptInv, JobsType
    <2>2. /\ Kept(found[p]) /\ found[p] \in JobType /\ found[p].outcome = job[p].outcome
          /\ found[p].status = "Absent" <=> job[p].status = "Absent"
      <3> DEFINE k == [job[p] EXCEPT !.status = "Cancelled"]
      <3>1. k \in JobType /\ Kept(k) /\ k.outcome = job[p].outcome /\ k.status = "Cancelled"
        BY <2>1 DEF Kept, JobType, JobStatus
      <3> HIDE DEF k
      <3>2. found[p] = job[p] \/ (found[p] = k /\ job[p].status # "Absent")
        BY DEF CancelledJobs, JobStatus, k
      <3> QED
        BY <2>1, <3>1, <3>2
    <2>3. /\ Kept(jobs[p]) /\ jobs[p] \in JobType /\ jobs[p].outcome \in {job[p].outcome, "Failed"}
          /\ jobs[p].status = "Absent" <=> job[p].status = "Absent"
      <3> DEFINE k == [found[p] EXCEPT !.status = "Failed", !.outcome = "Failed"]
      <3>1. k \in JobType /\ Kept(k) /\ k.outcome = "Failed" /\ k.status = "Failed"
        BY <2>2 DEF Kept, Said, JobType, JobStatus, JobOutcome
      <3> HIDE DEF k
      <3>2. jobs[p] = found[p] \/ (jobs[p] = k /\ found[p].status # "Absent")
        BY DEF Interrupted, k
      <3> QED
        BY <2>2, <3>1, <3>2
    <2> HIDE DEF jobs
    <2>4. \E b : last[p] = [jobs[p] EXCEPT !.reviewed = b]
      BY DEF WithReviews
    <2>5. ASSUME NEW b
          PROVE  LET k == [jobs[p] EXCEPT !.reviewed = b]
                 IN k.status = jobs[p].status /\ k.outcome = jobs[p].outcome
      BY <2>3 DEF JobType
    <2> HIDE DEF last
    <2> QED
      BY <2>3, <2>4, <2>5 DEF Kept
  <1> HIDE DEF jobs, last
  <1> QED
    BY <1>4, <1>5 DEF JobsGo, last, jobs

\* What a restart makes of one run it finds: nobody decided against it, so its end is seen.
LEMMA RestartRun ==
    ASSUME ChainConstants, NEW r \in RunType, NEW verdict \in Verdicts
    PROVE  LET k == Resettled(r, verdict)
           IN /\ k.status \in Early => k = r
              /\ r.status = "Absent" => k = r
              /\ r.status \in Acting /\ ~r.reviewed =>
                   k.status \in Early \ {"Absent"} \/ RunNeedsReview(k)
  <1>1. CASE r.status = "Proposed"
    <2> DEFINE k == [r EXCEPT !.status = "Cancelled", !.approval = "Rejected"]
    <2>1. k.status = "Cancelled" /\ k.approval = "Rejected" /\ k.reviewed = r.reviewed
      BY DEF RunType
    <2> HIDE DEF k
    <2>2. Resettled(r, verdict) = k
      BY <1>1 DEF Resettled, k
    <2> QED
      BY <1>1, <2>1, <2>2 DEF Early, Acting, RunNeedsReview, Denied
  <1>2. CASE r.status = "Running"
    <2> DEFINE k == Settled(r, "Failed")
    <2>1. k.status = "Failed" /\ k.reviewed = r.reviewed
      BY DEF Settled, RunType
    <2> HIDE DEF k
    <2>2. Resettled(r, verdict) = k
      BY <1>2 DEF Resettled, k
    <2> QED
      BY <1>2, <2>1, <2>2 DEF Early, Acting, RunNeedsReview, HasFailed
  <1>3. CASE r.status = "Verifying"
    <2>1. verdict # "None"
      BY DEF Verdicts, ChainConstants
    <2>2. Settled(r, verdict).status \in {"Failed", "VerificationFailed", "Succeeded"}
      BY <2>1 DEF Settled, RunType
    <2>3. Resettled(r, verdict) = Settled(r, verdict)
      BY <1>3 DEF Resettled
    <2> QED
      BY <1>3, <2>2, <2>3 DEF Early, Acting
  <1>4. CASE r.status \notin {"Proposed", "Running", "Verifying"}
    <2>1. Resettled(r, verdict) = r
      BY <1>4 DEF Resettled
    <2> QED
      BY <2>1 DEF Early, Acting
  <1> QED
    BY <1>1, <1>2, <1>3, <1>4

\* A restart ends what was under way, where somebody sees it.
LEMMA RecoverGoes ==
    ASSUME ChainConstants, TypeInv, AttendInv, Recover
    PROVE  Goes
  <1> DEFINE found == IF Closed THEN CancelledJobs(job, Passes) ELSE job
             jobs == Interrupted(found)
             left == IF Closed THEN CancelledRuns(run, Passes \X Proposals) ELSE run
             last == WithReviews(jobs)
  <1>1. job \in JobsType /\ run \in RunsType
    BY DEF TypeInv
  <1>2. PICK effect \in [Passes -> [Proposals -> Verdicts]] :
           Reconciled(last, RunsWithReviews(jobs, InterruptedRuns(left, effect)))
    BY DEF Recover
  <1> DEFINE runs == InterruptedRuns(left, effect)
             lastRuns == RunsWithReviews(jobs, runs)
  <1>3. /\ JobsGo(last)
        /\ \A p \in Passes : last[p].outcome \in {job[p].outcome, "Failed"}
    BY RestartJobs
  <1>4. found \in JobsType /\ left \in RunsType
    BY <1>1, CancelledRecords
  <1>5. runs \in RunsType
    BY <1>4, InterruptedRunsType
  <1>6. lastRuns \in RunsType
    <2> HIDE DEF runs, jobs
    <2> QED
      BY <1>5, ReviewedRunsType
  <1>7. ASSUME NEW p \in Passes, NEW x \in Proposals
        PROVE  SentBack(jobs, p, x) = SentBack(job, p, x)
    <2>1. \A q \in Passes : Ordinary(job[q], found[q])
      BY <1>1, CancelledRecords, JobStays
    <2> HIDE DEF found
    <2>2. \A q \in Passes : Ordinary(found[q], jobs[q])
      BY <1>4, InterruptedPasses
    <2>3. \A q \in Passes :
             jobs[q].why = job[q].why /\ jobs[q].from = job[q].from /\ jobs[q].item = job[q].item
      BY <2>1, <2>2 DEF Ordinary, Later
    <2> QED
      BY <2>3 DEF SentBack
  <1> HIDE DEF jobs, found, last
  <1>8. ASSUME NEW p \in Passes, NEW x \in Proposals
        PROVE  LET r == run[p][x]
                   k == lastRuns[p][x]
               IN /\ k.status \in Early => k = r
                  /\ r.status = "Absent" => k.status = "Absent"
                  /\ ~Closed /\ r.status \in Acting => Stops(k)
    <2> DEFINE r == run[p][x]
               l == left[p][x]
               s == runs[p][x]
               k == lastRuns[p][x]
    <2>1. r \in RunType /\ l \in RunType /\ s \in RunType /\ effect[p][x] \in Verdicts
      <3> HIDE DEF left, runs, lastRuns
      <3>1. effect[p][x] \in Verdicts
        OBVIOUS
      <3> QED
        BY <1>1, <1>4, <1>5, <3>1 DEF RunsType
    <2>2. s = Resettled(l, effect[p][x])
      BY DEF InterruptedRuns
    <2>3. (~Closed => l = r) /\ (l.status \in Early \ {"WaitingForHuman"} => l = r)
          /\ (r.status = "Absent" => l = r)
      <3>1. l = r \/ (Closed /\ l = [r EXCEPT !.status = "Cancelled"] /\ r.status # "Absent")
        BY DEF CancelledRuns
      <3>2. [r EXCEPT !.status = "Cancelled"].status = "Cancelled"
        BY <2>1 DEF RunType
      <3> QED
        BY <3>1, <3>2 DEF Early, Acting
    <2>4. /\ k = s \/ (RunNeedsReview(s) /\ SentBack(job, p, x) /\ k = AfterReview(s))
      BY <1>7 DEF RunsWithReviews
    <2>5. AfterReview(s).status = s.status \/ AfterReview(s).status = "Cancelled"
      BY <2>1 DEF AfterReview, RunType
    <2> HIDE DEF l, s, k, left, runs, lastRuns
    <2>6. /\ s.status \in Early => s = l
          /\ l.status = "Absent" => s = l
          /\ l.status \in Acting /\ ~l.reviewed =>
               s.status \in Early \ {"Absent"} \/ RunNeedsReview(s)
      BY <2>1, <2>2, RestartRun
    <2>7. r.status \in Early => ~r.reviewed /\ ~SentBack(job, p, x) /\ ~RunNeedsReview(r)
      BY FreshRuns
    <2>8. k.status \in Early => k = r
      <3> SUFFICES ASSUME k.status \in Early PROVE k = r
        OBVIOUS
      <3>1. s.status \in Early
        BY <2>4, <2>5 DEF Early, Acting
      <3>2. s = r
        BY <2>3, <2>6, <3>1 DEF Early, Acting
      <3> QED
        BY <2>4, <2>7, <3>1, <3>2
    <2>9. r.status = "Absent" => k.status = "Absent"
      BY <2>3, <2>4, <2>6, <2>7 DEF Early
    <2>10. ASSUME ~Closed, r.status \in Acting PROVE Stops(k)
      <3>1. l = r /\ ~r.reviewed /\ ~SentBack(job, p, x)
        BY <2>3, <2>7, <2>10 DEF Early
      <3>2. k = s
        BY <2>4, <3>1
      <3>3. s.status \in Early \ {"Absent"} \/ RunNeedsReview(s)
        BY <2>6, <2>10, <3>1
      <3>4. RunNeedsReview(s) => s.status # "Absent"
        <4>1. r.status # "Absent"
          BY <2>10 DEF Acting
        <4>2. s.status = "Absent" => s = l
          BY <2>6 DEF Early
        <4> QED
          BY <3>1, <4>1, <4>2
      <3> QED
        BY <3>2, <3>3, <3>4 DEF Stops
    <2> QED
      BY <2>8, <2>9, <2>10 DEF k
  <1> HIDE DEF lastRuns, runs, left
  <1>9. RunsGo(lastRuns)
    <2>1. Grown(lastRuns)
      BY <1>8 DEF Grown
    <2>2. \A p \in Passes, x \in Proposals : Onward(run[p][x], lastRuns[p][x])
      BY <1>8 DEF Onward
    <2> QED
      BY <1>6, <2>1, <2>2 DEF RunsGo
  <1>10. Stays(run, lastRuns)
    BY <1>8 DEF Stays
  <1>11. Calm(last, lastRuns)
    <2> SUFFICES ASSUME Reliable, issue \in {"Open", "Absent"}
                 PROVE  NoRuns(lastRuns) /\ \A p \in Passes : last[p].outcome \in {"None", "Failed"}
      BY DEF Calm
    <2>1. NoRuns(run) /\ \A p \in Passes : job[p].outcome = "None"
      BY DEF AttendInv, PlaceInv, Placed
    <2> QED
      BY <1>3, <1>8, <2>1 DEF NoRuns
  <1>12. Reconciled(last, lastRuns)
    BY <1>2 DEF lastRuns, runs
  <1> QED
    BY <1>3, <1>9, <1>10, <1>11, <1>12, LandsRight DEF Lands, AttendInv

\* A report opens the Issue.
LEMMA ReportGoes ==
    ASSUME TypeInv, AttendInv, NEW t \in Tasks, Report(t)
    PROVE  Goes
  <1>1. issue = "Absent" /\ issue' = "Open" /\ UNCHANGED <<job, run, cut>>
    BY DEF Report
  <1>2. KeptInv' /\ RunsGo(run')
    BY <1>1, SameGo DEF AttendInv, KeptInv
  <1>3. Reliable' => Reliable
    BY <1>1 DEF Reliable, Closed, IssueTerminal
  <1>4. Reliable => Placed("Absent", job, run)
    BY <1>1 DEF AttendInv, PlaceInv
  <1> QED
    BY <1>1, <1>2, <1>3, <1>4 DEF Goes, IssueGoes, Placed

\* A pass is added to a live Issue.
LEMMA AddGoes ==
    ASSUME ChainConstants, TypeInv, AttendInv, NEW b \in BriefType, Adds(b),
           \A p \in Passes \ {NextPass} : Mild(job[p], job'[p]),
           issue' \in {issue, "Investigating"},
           Reliable => issue # "Absent"
    PROVE  Goes
  <1>1. /\ NextPass \in Passes /\ job'[NextPass] = NewPass(b) /\ UNCHANGED <<run, cut>> /\ ~Closed
        /\ job[NextPass].status = "Absent"
    BY NextIsFree DEF Adds, Room, Exist, TypeInv
  <1>2. NewPass(b).status = "Running" /\ NewPass(b).outcome = "None"
    BY DEF NewPass, NoPass
  <1>3. ASSUME NEW p \in Passes
        PROVE  /\ Kept(job'[p])
               /\ job[p].status # "Absent" => job'[p].status # "Absent"
               /\ job[p].outcome = "None" => job'[p].outcome = "None"
    <2>1. CASE p = NextPass
      BY <1>1, <1>2, <2>1 DEF Kept
    <2>2. CASE p # NextPass
      <3>1. Mild(job[p], job'[p]) /\ Kept(job[p])
        BY <2>2 DEF AttendInv, KeptInv
      <3> QED
        BY <3>1, MildKept DEF Mild
    <2> QED
      BY <2>1, <2>2
  <1>4. RunsGo(run')
    BY <1>1, SameGo
  <1>5. Underway(job')
    BY <1>1, <1>2 DEF Underway
  <1>6. Reliable' => Reliable
    BY <1>1 DEF Reliable
  <1>7. Reliable => Placed(issue, job, run)
    BY DEF AttendInv, PlaceInv
  <1>8. \A s : SomeRun(job, run, s) => SomeRun(job', run', s)
    BY <1>1, <1>3 DEF SomeRun
  <1>9. Reliable => Placed(issue', job', run')
    BY <1>1, <1>3, <1>5, <1>7, <1>8 DEF Placed
  <1> QED
    BY <1>3, <1>4, <1>6, <1>9 DEF Goes, KeptInv, IssueGoes

\* A pass is dispatched, or the request refused.
LEMMA CreateGoes ==
    ASSUME ChainConstants, TypeInv, AttendInv, NEW t \in Tasks, Create(t) \/ CreateInterrupted(t)
    PROVE  Goes
  <1> DEFINE b == task[t].brief
  <1>1. /\ task[t].pc = "create" /\ b \in BriefType /\ job \in JobsType
        /\ issue \in IssueStatus \cup {"Absent"}
    BY BriefOf DEF Create, CreateInterrupted, At, TypeInv
  <1>2. CASE Admits
    <2>1. /\ Room /\ job' = Inserted(b) /\ UNCHANGED <<run, cut>> /\ ~Closed
          /\ issue' \in {issue, "Investigating"}
      BY <1>2 DEF Create, CreateInterrupted, Admits
    <2>2. issue' \in (IssueStatus \cup {"Absent"}) \ IssueTerminal
      BY <1>1, <2>1 DEF IssueStatus, IssueTerminal, Closed
    <2>3. Adds(b) /\ \A p \in Passes \ {NextPass} : job'[p] = job[p]
      BY <1>1, <2>1, <2>2, Inserting DEF Adds
    <2>4. \A p \in Passes \ {NextPass} : Mild(job[p], job'[p])
      BY <2>3 DEF Mild
    <2>5. Reliable => issue # "Absent"
      BY <1>1, SeatOf
    <2> QED
      BY <1>1, <2>1, <2>3, <2>4, <2>5, AddGoes
  <1>3. CASE ~Admits
    <2>1. UNCHANGED <<job, run, issue, cut>>
      BY <1>3 DEF Create, CreateInterrupted
    <2> QED
      BY <2>1, UntouchedGoes
  <1> QED
    BY <1>2, <1>3

\* A pass is superseded: it did not run any more, and its successor does.
LEMMA SupersedeGoes ==
    ASSUME ChainConstants, TypeInv, AttendInv, CarryInv, NEW t \in Tasks, Supersede(t)
    PROVE  Goes
  <1> DEFINE p == task[t].pass
             b == Probe(p)
  <1>1. /\ task[t].pc = "supersede" /\ job \in JobsType /\ p \in Exist /\ p \in Passes
        /\ job[p] \in JobType /\ job[p].status # "Absent"
    BY BriefOf DEF Supersede, At, TypeInv, OfPass, Exist
  <1>2. b \in BriefType
    BY <1>1, BriefsBriefed DEF Briefed
  <1>3. CASE Admits /\ ~Ended(p)
    <2>1. Room /\ job' = Superseded(Inserted(b), p) /\ UNCHANGED <<run, issue, cut>> /\ ~Closed
      BY <1>3 DEF Supersede, Admits
    <2>2. Adds(b)
      <3>1. NextPass \in Passes
        BY <2>1 DEF Room
      <3>2. p # NextPass
        BY <1>1, NextIsFree DEF TypeInv
      <3>3. job'[NextPass].status # "Absent" \/ Adds(b)
        BY <1>1, <1>2, <2>1, <3>1, <3>2, NewPassFields DEF Superseded, Inserted, JobsType
      <3>4. Adds(b) \/ (Touches /\ task'[t] = Idle)
        BY SupersedeShape
      <3>5. job[NextPass].status = "Absent"
        BY <3>1, NextIsFree DEF Exist, TypeInv
      <3> QED
        BY <3>1, <3>3, <3>4, <3>5 DEF Touches, Ordinary, Later
    <2>3. ASSUME NEW q \in Passes \ {NextPass} PROVE Mild(job[q], job'[q])
      <3> DEFINE k == [job[p] EXCEPT !.status = "Superseded"]
      <3>1. Mild(job[p], k) /\ Mild(job[q], job[q])
        BY <1>1 DEF Mild, JobType
      <3>2. job'[q] = job[q] \/ (q = p /\ job'[q] = k)
        BY <1>1, <2>1, <2>3 DEF Superseded, Inserted, JobsType
      <3> QED
        BY <3>1, <3>2
    <2>4. Reliable => issue # "Absent"
      BY <1>1, SeatOf
    <2> QED
      BY <1>2, <2>1, <2>2, <2>3, <2>4, AddGoes
  <1>4. CASE ~(Admits /\ ~Ended(p))
    <2>1. UNCHANGED <<job, run, issue, cut>>
      BY <1>4 DEF Supersede
    <2> QED
      BY <2>1, UntouchedGoes
  <1> QED
    BY <1>3, <1>4

\* Whatever the step, the records go where they should, and the Issue with them.
LEMMA NextGoes ==
    ASSUME ChainConstants, TypeInv, AttendInv, CarryInv, [Next]_vars
    PROVE  Goes
  <1>1. ASSUME NEW t \in Tasks, Step(t) PROVE Goes
    <2>1. CASE Create(t) \/ CreateInterrupted(t)
      BY <2>1, CreateGoes
    <2>2. CASE Supersede(t)
      BY <2>2, SupersedeGoes
    <2>3. CASE Run(t) \/ Deliver(t) \/ TeamFails(t) \/ Fallback(t) \/ Drive(t) \/ SupersedeInterrupted(t)
      BY <2>3, PassGoes
    <2>4. CASE Apply(t) \/ Late(t)
      BY <2>4, ApplyGoes
    <2>5. CASE WriteInterrupted(t)
      BY <2>5, WriteInterruptedGoes
    <2>6. CASE Propose(t)
      BY <2>6, ProposeGoes
    <2>7. CASE Execute(t)
      BY <2>7, ExecuteGoes
    <2>8. CASE Stop(t)
      BY <2>8, StopGoes
    <2>9. CASE Record(t)
      BY <2>9, ReviewedGoes
    <2>10. CASE Abandon(t)
      BY <2>10, AbandonGoes
    <2>11. CASE FollowUp(t) \/ Drain(t)
      BY <2>11, UntouchedGoes DEF FollowUp, Drain
    <2> QED
      BY <1>1, <2>1, <2>2, <2>3, <2>4, <2>5, <2>6, <2>7, <2>8, <2>9, <2>10, <2>11 DEF Step
  <1>2. ASSUME NEW t \in Tasks, Human(t) PROVE Goes
    <2>1. CASE Report(t)
      BY <2>1, ReportGoes
    <2>2. CASE Approve(t)
      BY <2>2, DecidedGoes
    <2>3. CASE SendUpstream(t) \/ Comment(t) \/ Resume(t)
      BY <2>3, UntouchedGoes DEF SendUpstream, Comment, Resume
    <2> QED
      BY <1>2, <2>1, <2>2, <2>3 DEF Human
  <1>3. ASSUME NEW t \in Tasks, Drop(t) PROVE Goes
    BY <1>3, UntouchedGoes DEF Drop, TypeInv, CutType
  <1>4. CASE Reject
    BY <1>4, DecidedGoes
  <1>5. CASE Acknowledge
    BY <1>5, ReviewedGoes
  <1>6. CASE Close
    BY <1>6, CloseGoes
  <1>7. CASE DecisionInterrupted
    BY <1>7, DecisionInterruptedGoes
  <1>8. CASE Recover
    BY <1>8, RecoverGoes
  <1>9. CASE Freeze \/ Crash \/ UNCHANGED vars
    BY <1>9, UntouchedGoes DEF Freeze, Crash, vars
  <1> QED
    BY <1>1, <1>2, <1>3, <1>4, <1>5, <1>6, <1>7, <1>8, <1>9 DEF Next

-----------------------------------------------------------------------------
(* Each request on a pass of its own. *)

\* It goes on with its own pass, and does not try again what it proposes; or it takes the pass
\* that it adds.
OwnGoes(u) ==
    task'[u].pc \in Before \cup {"propose"} \/ (task'[u].pc = "execute" /\ ~ForOneRun(u)') =>
      \/ /\ Own(u) /\ task'[u].pass = task[u].pass
         /\ Untried(u)' \subseteq Untried(u)
         /\ \A p, x : Proposing(u, p, x) => x \notin Untried(u)'
      \/ /\ Creates(u) \/ Supersedes(u)
         /\ task'[u].pass = NextPass /\ \A v \in Tasks \ {u} : task'[v] = task[v]

\* A request that executes a given run has no pass in hand.
LEMMA RunForOne ==
    ASSUME ChainConstants, NEW t \in Tasks, task'[t].op \in {"approve", "resume"},
           task'[t].brief.item \in Proposals, task'[t].pc = "execute"
    PROVE  OwnGoes(t)
  <1>1. task'[t].brief.item # 0
    BY DEF Proposals, ChainConstants
  <1>2. ForOneRun(t)'
    BY <1>1 DEF ForOneRun
  <1> QED
    BY <1>2 DEF OwnGoes, Before

\* A request works on a pass of its own from its dispatch to the last of its proposals.
LEMMA StepOwn ==
    ASSUME ChainConstants, TypeInv, NEW t \in Tasks, Step(t) \/ Human(t) \/ Drop(t)
    PROVE  OwnGoes(t)
  <1>1. task[t] \in TaskType /\ Idle \in TaskType
    BY BriefOf, IdleFits
  <1>2. ASSUME NEW r, Set(t, r), r.pc \notin Before \cup {"propose", "execute"}
        PROVE  OwnGoes(t)
    BY <1>2, SetPlace DEF OwnGoes
  <1>3. ASSUME Fail(t) \/ Finish(t) PROVE OwnGoes(t)
    BY <1>3, FinishElsewhere DEF OwnGoes, Before
  <1>4. ASSUME NEW r, Set(t, r), task[t].pc \in Before, r.pc \in Before, r.pass = task[t].pass
        PROVE  OwnGoes(t)
    <2>1. task'[t] = r
      BY <1>4, SetPlace
    <2>2. Own(t) /\ Untried(t) = Proposals /\ Untried(t)' = Proposals
      BY <1>4, <2>1 DEF Own, Untried
    <2>3. \A p, x : ~Proposing(t, p, x)
      BY <1>4 DEF Proposing, Before
    <2> QED
      BY <1>4, <2>1, <2>2, <2>3 DEF OwnGoes
  <1>5. ASSUME NEW pc, Goto(t, pc), pc \notin Before \cup {"propose", "execute"}
                                    \/ (task[t].pc \in Before /\ pc \in Before)
        PROVE  OwnGoes(t)
    <2> DEFINE r == [task[t] EXCEPT !.pc = pc]
    <2>1. r.pc = pc /\ r.pass = task[t].pass
      BY <1>1 DEF TaskType
    <2>2. Set(t, r)
      BY <1>5 DEF Goto
    <2> HIDE DEF r
    <2> QED
      BY <1>2, <1>4, <1>5, <2>1, <2>2
  <1>6. ASSUME NEW r, r.pass = NextPass, Set(t, r), Creates(t) \/ Supersedes(t)
        PROVE  OwnGoes(t)
    BY <1>6, SetPlace DEF OwnGoes
  <1>7. CASE Create(t)
    <2> DEFINE s == [task[t] EXCEPT !.pc = "record", !.pass = NextPass]
               r == [task[t] EXCEPT !.pc = "run", !.pass = NextPass, !.brief = NoBrief]
    <2>1. Fail(t) \/ Set(t, s) \/ Set(t, r)
      BY <1>7 DEF Create, Dispatched
    <2>2. s.pass = NextPass /\ r.pass = NextPass
      BY <1>1 DEF TaskType
    <2> HIDE DEF s, r
    <2>3. Creates(t) \/ task'[t] = Idle
      BY <1>7, CreateShape DEF Creates
    <2>4. Creates(t) \/ OwnGoes(t)
      BY <2>3, IdlePlace DEF OwnGoes, Before
    <2> QED
      BY <1>3, <1>6, <2>1, <2>2, <2>4
  <1>8. CASE Supersede(t)
    <2> DEFINE r == [task[t] EXCEPT !.pc = "run", !.pass = NextPass]
    <2>1. Fail(t) \/ Set(t, r)
      BY <1>8 DEF Supersede
    <2>2. r.pass = NextPass
      BY <1>1 DEF TaskType
    <2> HIDE DEF r
    <2>3. Supersedes(t) \/ task'[t] = Idle
      BY <1>8, SupersedeShape DEF Supersedes
    <2>4. Supersedes(t) \/ OwnGoes(t)
      BY <2>3, IdlePlace DEF OwnGoes, Before
    <2> QED
      BY <1>3, <1>6, <2>1, <2>2, <2>4
  <1>9. CASE Run(t) \/ TeamFails(t) \/ Fallback(t) \/ Late(t)
    <2>1. task[t].pc \in {"run", "team", "fallback", "late"}
      BY <1>9 DEF Run, TeamFails, Fallback, Late, At
    <2>2. Fail(t) \/ \E pc \in {"team", "drive", "fallback", "late"} : Goto(t, pc)
      BY <1>9 DEF Run, TeamFails, Fallback, Late
    <2> QED
      BY <1>3, <1>5, <2>1, <2>2 DEF Before
  <1>10. ASSUME NEW pc \in Before, NEW k, task[t].pc \in Before,
                Set(t, [task[t] EXCEPT !.pc = pc, !.result = k])
         PROVE  OwnGoes(t)
    <2> DEFINE r == [task[t] EXCEPT !.pc = pc, !.result = k]
    <2>1. r.pc = pc /\ r.pass = task[t].pass
      BY <1>1 DEF TaskType
    <2>2. Set(t, r)
      BY <1>10
    <2> HIDE DEF r
    <2> QED
      BY <1>4, <1>10, <2>1, <2>2
  <1>11. CASE Deliver(t) \/ Apply(t)
    <2>1. task[t].pc \in Before
      BY <1>11 DEF Deliver, Apply, At, Before
    <2>2. \/ Goto(t, "drive")
          \/ \E pc \in {"apply", "drive", "fallback"} :
               \E k : Set(t, [task[t] EXCEPT !.pc = pc, !.result = k])
      BY <1>11 DEF Deliver, Apply
    <2>3. {"apply", "drive", "fallback"} \subseteq Before
      BY DEF Before
    <2> QED
      BY <1>5, <1>10, <2>1, <2>2, <2>3
  <1>12. CASE Record(t)
    <2> DEFINE r == [task[t] EXCEPT !.pc = "run", !.brief = NoBrief]
    <2>1. Fail(t) \/ Set(t, r)
      BY <1>12 DEF Record
    <2>2. r.pc = "run" /\ r.pass = task[t].pass
      BY <1>1 DEF TaskType
    <2>3. task[t].pc = "record"
      BY <1>12 DEF Record, At
    <2> HIDE DEF r
    <2> QED
      BY <1>3, <1>4, <2>1, <2>2, <2>3 DEF Before
  <1>13. CASE Drive(t)
    <2> DEFINE todo == 1 .. job[task[t].pass].proposes
               r == [task[t] EXCEPT !.pc = "propose", !.todo = todo, !.seen = {}]
    <2>1. task[t].pc = "drive"
      BY <1>13 DEF Drive, At
    <2>2. Finish(t) \/ Goto(t, "supersede") \/ Set(t, r)
      BY <1>13 DEF Drive
    <2>3. todo \subseteq Proposals
      <3>1. job[task[t].pass].proposes \in 0 .. MaxProposals
        BY <2>1, BriefOf DEF OfPass, JobType
      <3> QED
        BY <3>1 DEF Proposals, ChainConstants
    <2> HIDE DEF todo
    <2>4. r.pc = "propose" /\ r.pass = task[t].pass /\ r.todo = todo
      BY <1>1 DEF TaskType
    <2> HIDE DEF r
    <2>5. ASSUME Set(t, r) PROVE OwnGoes(t)
      <3>1. task'[t] = r
        BY <2>5, SetPlace
      <3>2. Own(t) /\ Untried(t) = Proposals /\ Untried(t)' = todo
        BY <2>1, <2>4, <3>1 DEF Own, Untried, Before
      <3>3. \A p, x : ~Proposing(t, p, x)
        BY <2>1 DEF Proposing
      <3> QED
        BY <2>3, <2>4, <3>1, <3>2, <3>3 DEF OwnGoes
    <2> QED
      BY <1>3, <1>5, <2>1, <2>2, <2>5 DEF Before
  <1>14. CASE Propose(t)
    <2> DEFINE x == First(task[t].todo)
               s == [task[t] EXCEPT !.pc = "execute"]
               r(seen) == [task[t] EXCEPT !.todo = @ \ {x}, !.seen = seen]
    <2>1. task[t].pc = "propose" /\ task[t].todo # {}
      BY <1>14 DEF Propose, At
    <2>2. Fail(t) \/ Set(t, s) \/ \E seen : Set(t, r(seen))
      BY <1>14 DEF Propose, Goto
    <2>3. /\ s.pc = "execute" /\ s.pass = task[t].pass /\ s.todo = task[t].todo
          /\ \A seen : /\ r(seen).pc = "propose" /\ r(seen).pass = task[t].pass
                       /\ r(seen).todo = task[t].todo \ {x}
      BY <1>1, <2>1 DEF TaskType
    <2>4. Own(t) /\ Untried(t) = task[t].todo
      BY <2>1 DEF Own, Untried, Before
    <2>5. \A p, y : Proposing(t, p, y) => y = x
      BY DEF Proposing
    <2>6. ASSUME NEW k, Set(t, k), k.pass = task[t].pass,
                 \/ k.pc = "execute" /\ k.todo = task[t].todo
                 \/ k.pc = "propose" /\ k.todo = task[t].todo \ {x}
          PROVE  OwnGoes(t)
      <3>1. task'[t] = k
        BY <2>6, SetPlace
      <3>2. Untried(t)' = task[t].todo \ {x}
        BY <2>6, <3>1 DEF Untried, Before
      <3> HIDE DEF x
      <3> QED
        BY <2>4, <2>5, <2>6, <3>1, <3>2 DEF OwnGoes
    <2> HIDE DEF s, r, x
    <2> QED
      BY <1>3, <2>2, <2>3, <2>6
  <1>15. CASE Execute(t)
    <2> DEFINE x == First(task[t].todo)
               r(seen) == [task[t] EXCEPT !.pc = "propose", !.todo = @ \ {x}, !.seen = seen]
    <2>1. task[t].pc = "execute"
      BY <1>15 DEF Execute, At
    <2>2. Fail(t) \/ \E status : Executed(t, status)
      BY <1>15 DEF Execute
    <2>3. \/ Fail(t) \/ Goto(t, "settled")
          \/ ~ForOneRun(t) /\ \E seen : Set(t, r(seen))
      BY <2>2 DEF Executed
    <2>4. \A seen : /\ r(seen).pc = "propose" /\ r(seen).pass = task[t].pass
                    /\ r(seen).todo = task[t].todo \ {x}
      BY <1>1 DEF TaskType
    <2>5. ASSUME NEW k, Set(t, k), k.pass = task[t].pass, k.pc = "propose",
                 k.todo = task[t].todo \ {x}, ~ForOneRun(t)
          PROVE  OwnGoes(t)
      <3>1. task'[t] = k
        BY <2>5, SetPlace
      <3>2. Untried(t)' = task[t].todo \ {x} /\ Untried(t) = task[t].todo \ {x} /\ Own(t)
        BY <2>1, <2>5, <3>1 DEF Untried, Before, Own
      <3>3. \A p, y : ~Proposing(t, p, y)
        BY <2>1 DEF Proposing
      <3> HIDE DEF x
      <3> QED
        BY <2>5, <3>1, <3>2, <3>3 DEF OwnGoes
    <2> HIDE DEF r, x
    <2> QED
      BY <1>3, <1>5, <2>3, <2>4, <2>5 DEF Before
  <1>16. CASE Stop(t) \/ FollowUp(t)
    <2>1. \/ Finish(t)
          \/ \E b, seen : Set(t, [task[t] EXCEPT !.pc = "create", !.seen = seen, !.brief = b])
          \/ \E b : Set(t, [task[t] EXCEPT !.pc = "create", !.brief = b])
      BY <1>16 DEF Stop, FollowUp
    <2>2. \A b, seen : /\ [task[t] EXCEPT !.pc = "create", !.seen = seen, !.brief = b].pc = "create"
                       /\ [task[t] EXCEPT !.pc = "create", !.brief = b].pc = "create"
      BY <1>1 DEF TaskType
    <2>3. "create" \notin Before \cup {"propose", "execute"}
      BY DEF Before
    <2> QED
      BY <1>2, <1>3, <2>1, <2>2, <2>3
  <1>17. CASE Drain(t)
    <2>1. task[t].op = "resume"
      BY <1>17, BriefOf DEF Drain, At, Fits
    <2>2. \/ Fail(t)
          \/ \E pr \in task[t].queue : \E q :
               Set(t, [task[t] EXCEPT !.pc = "execute", !.queue = q,
                                      !.brief = [NoBrief EXCEPT !.from = pr[1], !.item = pr[2]]])
      BY <1>17 DEF Drain
    <2>3. ASSUME NEW pr \in task[t].queue, NEW q,
                 Set(t, [task[t] EXCEPT !.pc = "execute", !.queue = q,
                                        !.brief = [NoBrief EXCEPT !.from = pr[1], !.item = pr[2]]])
          PROVE  OwnGoes(t)
      <3> DEFINE b == [NoBrief EXCEPT !.from = pr[1], !.item = pr[2]]
                 r == [task[t] EXCEPT !.pc = "execute", !.queue = q, !.brief = b]
      <3>1. b.item \in Proposals
        <4>1. pr \in Passes \X Proposals
          BY <1>1 DEF TaskType
        <4> QED
          BY <4>1 DEF NoBrief
      <3> HIDE DEF b
      <3>2. r.op = "resume" /\ r.brief = b /\ r.pc = "execute"
        BY <1>1, <2>1 DEF TaskType
      <3>3. task'[t] = r
        <4>1. Set(t, r)
          BY <2>3 DEF b
        <4> QED
          BY <4>1, SetPlace
      <3> HIDE DEF r
      <3> QED
        BY <3>1, <3>2, <3>3, RunForOne
    <2> QED
      BY <1>3, <2>2, <2>3
  <1>18. CASE Abandon(t)
    BY <1>3, <1>18 DEF Abandon
  <1>19. ASSUME Dropped(t) PROVE OwnGoes(t)
    <2>1. Set(t, Idle) \/ Set(t, Abandoning(task[t].pass))
      BY <1>19 DEF Dropped, GuardDropped
    <2>2. Abandoning(task[t].pass).pc = "abandon" /\ Idle.pc = "idle"
      BY <1>1, IdlePlace DEF TaskType, Abandoning
    <2> QED
      BY <1>2, <2>1, <2>2 DEF Before
  <1>20. ASSUME Dies PROVE OwnGoes(t)
    BY <1>20, IdlePlace DEF Dies, OwnGoes, Before
  <1>21. CASE Drop(t) \/ CreateInterrupted(t) \/ SupersedeInterrupted(t)
    BY <1>19, <1>20, <1>21 DEF Drop, CreateInterrupted, SupersedeInterrupted, CutOff
  <1>22. CASE WriteInterrupted(t)
    <2>1. \/ CutOff(t)
          \/ /\ task[t].pc = "apply"
             /\ Set(t, [task[t] EXCEPT !.pc = "fallback", !.result = NoResult])
      BY <1>22 DEF WriteInterrupted
    <2>2. {"apply", "fallback"} \subseteq Before
      BY DEF Before
    <2> QED
      BY <1>10, <1>19, <1>20, <2>1, <2>2 DEF CutOff
  <1>23. CASE Human(t)
    <2>1. task[t].pc = "idle"
      BY <1>23 DEF Human, Report, Approve, SendUpstream, Comment, Resume, At
    <2>2. task[t] = Idle
      BY <2>1, BriefOf DEF Fits
    <2>3. CASE Report(t) \/ SendUpstream(t) \/ Comment(t) \/ Resume(t)
      <3>1. \/ UNCHANGED task
            \/ \E op, b : Set(t, [Idle EXCEPT !.op = op, !.pc = "create", !.brief = b])
            \/ Set(t, Idle)
            \/ \E q : Set(t, [Idle EXCEPT !.op = "resume", !.pc = "drain", !.queue = q])
        BY <2>3 DEF Report, SendUpstream, Comment, Resume
      <3>2. \A op, b, q : /\ [Idle EXCEPT !.op = op, !.pc = "create", !.brief = b].pc = "create"
                          /\ [Idle EXCEPT !.op = "resume", !.pc = "drain", !.queue = q].pc = "drain"
        BY <1>1 DEF TaskType
      <3>3. {"create", "drain", "idle"} \cap (Before \cup {"propose", "execute"}) = {}
        BY DEF Before
      <3>4. UNCHANGED task => OwnGoes(t)
        BY <2>1, <3>3 DEF OwnGoes
      <3> QED
        BY <1>2, <3>1, <3>2, <3>3, <3>4, IdlePlace
    <2>4. CASE Approve(t)
      <3>1. PICK p \in Exist, x \in Proposals :
               Set(t, [Idle EXCEPT !.op = "approve", !.pc = "execute",
                                   !.brief = [NoBrief EXCEPT !.from = p, !.item = x]])
        BY <2>4 DEF Approve, RunsOf
      <3> DEFINE b == [NoBrief EXCEPT !.from = p, !.item = x]
                 r == [Idle EXCEPT !.op = "approve", !.pc = "execute", !.brief = b]
      <3>2. b.item \in Proposals
        BY DEF NoBrief, RunsOf
      <3> HIDE DEF b
      <3>3. r.op = "approve" /\ r.brief = b /\ r.pc = "execute"
        BY <1>1 DEF TaskType
      <3>4. task'[t] = r
        <4>1. Set(t, r)
          BY <3>1 DEF b
        <4> QED
          BY <4>1, SetPlace
      <3> HIDE DEF r
      <3> QED
        BY <3>2, <3>3, <3>4, RunForOne
    <2> QED
      BY <1>23, <2>3, <2>4 DEF Human
  <1> QED
    BY <1>7, <1>8, <1>9, <1>11, <1>12, <1>13, <1>14, <1>15, <1>16, <1>17, <1>18, <1>21, <1>22, <1>23
       DEF Step

\* A request that takes no step stays, or is gone.
LEMMA Unmoved ==
    ASSUME ChainConstants, TypeInv, [Next]_vars, NEW u \in Tasks, ~(Step(u) \/ Human(u) \/ Drop(u))
    PROVE  task'[u] = task[u] \/ task'[u] = Idle
  <1>1. ASSUME NEW t \in Tasks, Step(t) \/ Human(t) \/ Drop(t) PROVE task'[u] \in {task[u], Idle}
    <2>1. CASE Dies
      BY <2>1 DEF Dies
    <2>2. CASE Human(t)
      BY <2>2, HumanElsewhere DEF Elsewhere
    <2>3. CASE Stop(t) \/ FollowUp(t)
      BY <1>1, <2>3, SetPlace, EndNotAsking DEF Stop, FollowUp, NotAsking
    <2>4. CASE ~Human(t) /\ ~Stop(t) /\ ~FollowUp(t) /\ ~Dies
      BY <1>1, <2>4, StepNotAsking DEF NotAsking
    <2> QED
      BY <2>1, <2>2, <2>3, <2>4
  <1>2. CASE Crash \/ DecisionInterrupted
    BY <1>2 DEF Crash, DecisionInterrupted, Dies
  <1> QED
    BY <1>1, <1>2 DEF Next, Reject, Acknowledge, Close, Freeze, Recover, vars

\* The same of any step and any request.
LEMMA NextOwn ==
    ASSUME ChainConstants, TypeInv, [Next]_vars, NEW u \in Tasks
    PROVE  OwnGoes(u)
  <1>1. CASE Step(u) \/ Human(u) \/ Drop(u)
    BY <1>1, StepOwn
  <1>2. CASE ~(Step(u) \/ Human(u) \/ Drop(u))
    <2>1. \A p, x : ~Proposing(u, p, x)
      BY <1>2 DEF Proposing, Step
    <2>2. CASE task'[u] = Idle
      BY <2>2, IdlePlace DEF OwnGoes, Before
    <2>3. CASE task'[u] = task[u]
      <3>1. Untried(u)' = Untried(u) /\ ForOneRun(u)' = ForOneRun(u)
        BY <2>3 DEF Untried, ForOneRun
      <3> QED
        BY <2>1, <2>3, <3>1 DEF OwnGoes, Own
    <2> QED
      BY <1>2, <2>2, <2>3, Unmoved
  <1> QED
    BY <1>1, <1>2

\* A new pass has the brief of the request that asked for it; the others keep theirs.
LEMMA Origins ==
    ASSUME ChainConstants, TypeInv, [Next]_vars, NEW q \in Passes
    PROVE  \/ job'[q].why = job[q].why /\ job'[q].from = job[q].from /\ job'[q].item = job[q].item
           \/ \E t \in Tasks :
                /\ task[t].pc = "create"
                /\ job'[q].why = task[t].brief.why /\ job'[q].from = task[t].brief.from
                /\ job'[q].item = task[t].brief.item
           \/ job'[q].why = "probe"
  <1>1. CASE \A p \in Passes : Later(job[p], job'[p])
    BY <1>1 DEF Later
  <1>2. ASSUME NEW b \in BriefType, Adds(b)
        PROVE  \/ job'[q].why = job[q].why /\ job'[q].from = job[q].from /\ job'[q].item = job[q].item
               \/ job'[q].why = b.why /\ job'[q].from = b.from /\ job'[q].item = b.item
    <2>1. CASE q = NextPass
      BY <1>2, <2>1, NewPassFields DEF Adds
    <2>2. CASE q # NextPass
      BY <1>2, <2>2 DEF Adds, Ordinary, Later
    <2> QED
      BY <2>1, <2>2
  <1>3. ASSUME NEW t \in Tasks, Creates(t), Grows(task[t].brief)
        PROVE  task[t].pc = "create" /\ task[t].brief \in BriefType /\ Adds(task[t].brief)
    BY <1>3, BriefOf DEF Creates, Create, CreateInterrupted, At
  <1>4. ASSUME NEW t \in Tasks, Supersedes(t), Grows(Probe(task[t].pass))
        PROVE  LET b == Probe(task[t].pass) IN b \in BriefType /\ Adds(b) /\ b.why = "probe"
    <2>1. task[t].pc = "supersede"
      BY <1>4 DEF Supersedes, Supersede, At
    <2>2. Probe(task[t].pass) \in BriefType
      BY <2>1, BriefsBriefed DEF Briefed
    <2> QED
      BY <1>4, <2>2 DEF Grows, Probe
  <1> QED
    BY <1>1, <1>2, <1>3, <1>4, RecordsStep

\* Nobody decides against a run before its end.
LEMMA FreshStep ==
    ASSUME ChainConstants, TypeInv, AttendInv, RunsGo(run'), [Next]_vars
    PROVE  Fresh'
  <1>1. SUFFICES ASSUME NEW p \in Passes, NEW x \in Proposals, run'[p][x].status \in Early
                 PROVE  /\ ~run'[p][x].reviewed /\ run'[p][x].approval # "Rejected"
                        /\ ~SentBack(job', p, x)
                        /\ \A t \in Tasks : ~SendsBack(t, p, x)'
    BY DEF Fresh, SentBack, SendsBack
  <1>2. run[p][x].status \in Early /\ Onward(run[p][x], run'[p][x])
    BY <1>1 DEF RunsGo, Onward
  <1>3. /\ ~run[p][x].reviewed /\ run[p][x].approval # "Rejected"
        /\ ~SentBack(job, p, x) /\ \A t \in Tasks : ~SendsBack(t, p, x)
        /\ ~RunNeedsReview(run[p][x])
    BY <1>2, FreshRuns
  <1>4. ~run'[p][x].reviewed /\ run'[p][x].approval # "Rejected"
    BY <1>1, <1>2, <1>3 DEF Onward
  <1>5. ~SentBack(job', p, x)
    BY <1>3, Origins DEF SentBack, SendsBack
  <1>6. ASSUME NEW t \in Tasks PROVE ~SendsBack(t, p, x)'
    <2>1. SUFFICES ASSUME task'[t].pc = "create", task'[t].brief.why = "review",
                          task'[t].brief.from = p, task'[t].brief.item = x
                   PROVE  FALSE
      BY DEF SendsBack
    <2>2. Asks(t)
      BY <2>1, NextAsks
    <2>3. x # 0
      BY DEF Proposals, ChainConstants
    <2> QED
      BY <1>3, <2>1, <2>2, <2>3 DEF Asks, SendsBack, NeedsReview
  <1> QED
    BY <1>4, <1>5, <1>6

\* A request that proposes is at a pass that exists.
LEMMA ProposingThere ==
    ASSUME TypeInv, NEW t \in Tasks, NEW p, NEW x, Proposing(t, p, x)
    PROVE  Own(t) /\ p = task[t].pass /\ p \in Exist
  <1>1. task[t].pc = "propose" /\ p = task[t].pass
    BY DEF Proposing
  <1> QED
    BY <1>1, BriefOf DEF Own, OfPass

\* A pass that does not exist has no runs.
LEMMA NoneYetStep ==
    ASSUME ChainConstants, TypeInv, AttendInv, RunsGo(run'), [Next]_vars
    PROVE  NoneYet'
  <1>1. SUFFICES ASSUME NEW p \in Passes, NEW x \in Proposals, job'[p].status = "Absent",
                        run'[p][x].status # "Absent"
                 PROVE  FALSE
    BY DEF NoneYet
  <1>2. p \notin Exist
    BY <1>1, RecordsStep DEF Exist
  <1>3. run[p][x].status = "Absent"
    BY <1>2 DEF Exist, AttendInv, NoneYet
  <1> QED
    BY <1>1, <1>2, <1>3, ProposingThere DEF RunsGo, Grown

\* Two requests have no pass in common, and what one has not tried has no run.
LEMMA OwnStep ==
    ASSUME ChainConstants, TypeInv, AttendInv, RunsGo(run'), [Next]_vars
    PROVE  Apart' /\ Blank'
  <1>1. ASSUME NEW u \in Tasks, Own(u)'
        PROVE  \/ /\ Own(u) /\ task'[u].pass = task[u].pass
                  /\ Untried(u)' \subseteq Untried(u)
                  /\ \A p, x : Proposing(u, p, x) => x \notin Untried(u)'
               \/ task'[u].pass = NextPass /\ \A v \in Tasks \ {u} : task'[v] = task[v]
    BY <1>1, NextOwn DEF OwnGoes, Own
  <1>2. ASSUME NEW u \in Tasks, Own(u)
        PROVE  task[u].pass \in Exist /\ task[u].pass # NextPass
    <2>1. task[u].pass \in Exist
      <3>1. CASE task[u].pc \in OfPass
        BY <3>1, BriefOf
      <3>2. CASE task[u].pc = "execute" /\ ~ForOneRun(u)
        BY <3>2, BriefOf DEF Fits, ForOneRun
      <3> QED
        BY <1>2, <3>1, <3>2 DEF Own, Before, OfPass
    <2> QED
      BY <2>1, NextIsFree DEF TypeInv
  <1>3. Apart'
    <2>1. SUFFICES ASSUME NEW t \in Tasks, NEW u \in Tasks, Own(t)', Own(u)',
                          task'[t].pass = task'[u].pass, t # u
                   PROVE  FALSE
      BY DEF Apart, Own, ForOneRun
    <2>2. ASSUME NEW v \in Tasks, Own(v)', NEW w \in Tasks \ {v}, task'[w] = task[w],
                 Own(w)', task'[v].pass = NextPass, task'[v].pass = task'[w].pass
          PROVE  FALSE
      <3>1. Own(w)
        BY <2>2 DEF Own, ForOneRun
      <3> QED
        BY <1>2, <2>2, <3>1
    <2> QED
      BY <1>1, <2>1, <2>2 DEF AttendInv, Apart
  <1>4. Blank'
    <2>1. SUFFICES ASSUME NEW t \in Tasks, Own(t)', NEW x, x \in Untried(t)'
                   PROVE  run'[task'[t].pass][x].status = "Absent"
      BY DEF Blank
    <2> DEFINE p == task'[t].pass
    <2>2. task'[t] \in TaskType /\ p \in Passes
      <3>1. task' \in [Tasks -> TaskType] /\ Holds(t)'
        BY StepTypes DEF TypeInv
      <3>2. task'[t] \in TaskType /\ Fits(task'[t], Exist')
        BY <3>1 DEF Holds
      <3>3. p \in Exist'
        BY <2>1, <3>2 DEF Fits, Own, ForOneRun, Before, OfPass
      <3> QED
        BY <3>2, <3>3 DEF Exist
    <2>3. x \in Proposals
      BY <2>1, <2>2 DEF Untried, TaskType
    <2>4. SUFFICES ASSUME run'[p][x].status # "Absent" PROVE FALSE
      OBVIOUS
    <2>5. ASSUME run[p][x].status = "Absent"
          PROVE  \E u \in Tasks : Proposing(u, p, x) /\ Own(u) /\ p = task[u].pass /\ p \in Exist
      BY <2>2, <2>3, <2>4, <2>5, ProposingThere DEF RunsGo, Grown
    <2>6. CASE /\ Own(t) /\ p = task[t].pass /\ Untried(t)' \subseteq Untried(t)
               /\ \A q, y : Proposing(t, q, y) => y \notin Untried(t)'
      <3>1. run[p][x].status = "Absent"
        BY <2>1, <2>6 DEF AttendInv, Blank
      <3>2. PICK u \in Tasks : Proposing(u, p, x) /\ Own(u) /\ p = task[u].pass
        BY <2>5, <3>1
      <3>3. u = t
        BY <2>6, <3>2 DEF AttendInv, Apart
      <3> QED
        BY <2>1, <2>6, <3>2, <3>3
    <2>7. CASE p = NextPass
      <3>1. p \notin Exist
        BY <2>7, NextIsFree DEF TypeInv
      <3>2. run[p][x].status = "Absent"
        BY <2>2, <2>3, <3>1 DEF AttendInv, NoneYet, Exist
      <3> QED
        BY <2>5, <3>1, <3>2
    <2> QED
      BY <1>1, <2>1, <2>6, <2>7
  <1> QED
    BY <1>3, <1>4

\* A request that a human begins is about to create a pass, or has a run in hand.
LEMMA HumanEnters ==
    ASSUME ChainConstants, TypeInv, NEW u \in Tasks, Human(u)
    PROVE  /\ task[u].pc = "idle" /\ task'[u].pc \in {"idle", "create", "execute", "drain"}
           /\ task'[u].pc \in {"execute", "drain"} =>
                Approve(u) \/ \E p \in Exist, x \in Proposals : run[p][x].status = "Ready"
           /\ task'[u].pc = "create" =>
                issue' = "Open" \/ ((SendUpstream(u) \/ Comment(u)) /\ Exist # {})
  <1>1. task[u].pc = "idle" /\ Idle \in TaskType /\ Idle.pc = "idle"
    BY IdleFits, IdlePlace DEF Human, Report, Approve, SendUpstream, Comment, Resume, At
  <1>2. ASSUME NEW r, NEW op, NEW b, Set(u, r), r = [Idle EXCEPT !.op = op, !.pc = "create", !.brief = b]
        PROVE  task'[u].pc = "create"
    <2>1. r.pc = "create"
      BY <1>1, <1>2 DEF TaskType
    <2> QED
      BY <1>2, <2>1, SetPlace
  <1>3. CASE Report(u)
    <2>1. \/ UNCHANGED task
          \/ \E b : Set(u, [Idle EXCEPT !.op = "report", !.pc = "create", !.brief = b])
      BY <1>3 DEF Report
    <2>2. issue' = "Open"
      BY <1>3 DEF Report
    <2>3. task'[u].pc \in {"idle", "create"}
      BY <1>1, <1>2, <2>1
    <2> QED
      BY <1>1, <2>2, <2>3
  <1>4. CASE SendUpstream(u) \/ Comment(u)
    <2>1. \E op, b : Set(u, [Idle EXCEPT !.op = op, !.pc = "create", !.brief = b])
      BY <1>4 DEF SendUpstream, Comment
    <2>2. Exist # {}
      BY <1>4 DEF SendUpstream, Comment, AwaitsInput
    <2>3. task'[u].pc = "create"
      BY <1>2, <2>1
    <2> QED
      BY <1>1, <1>4, <2>2, <2>3
  <1>5. CASE Approve(u)
    <2>1. \E b : Set(u, [Idle EXCEPT !.op = "approve", !.pc = "execute", !.brief = b])
      BY <1>5 DEF Approve
    <2>2. \A b : [Idle EXCEPT !.op = "approve", !.pc = "execute", !.brief = b].pc = "execute"
      BY <1>1 DEF TaskType
    <2>3. task'[u].pc = "execute"
      BY <2>1, <2>2, SetPlace
    <2> QED
      BY <1>1, <1>5, <2>3
  <1>6. CASE Resume(u)
    <2> DEFINE queue == {pr \in Exist \X Proposals : run[pr[1]][pr[2]].status = "Ready"}
               r == [Idle EXCEPT !.op = "resume", !.pc = "drain", !.queue = queue]
    <2>1. Set(u, IF queue = {} THEN Idle ELSE r)
      BY <1>6 DEF Resume
    <2>2. queue # {} => \E p \in Exist, x \in Proposals : run[p][x].status = "Ready"
      OBVIOUS
    <2> HIDE DEF queue
    <2>3. r.pc = "drain"
      BY <1>1 DEF TaskType
    <2> HIDE DEF r
    <2>4. task'[u] = IF queue = {} THEN Idle ELSE r
      BY <2>1, SetPlace
    <2> QED
      BY <1>1, <2>2, <2>3, <2>4
  <1> QED
    BY <1>3, <1>4, <1>5, <1>6 DEF Human

\* A request that was about to create a pass is at that pass, or ends.
LEMMA CreateEnters ==
    ASSUME ChainConstants, TypeInv, [Next]_vars, NEW u \in Tasks, task[u].pc = "create",
           task'[u].pc \notin {"idle", "create"}
    PROVE  Create(u) /\ Admits
  <1>1. Idle.pc = "idle"
    BY IdlePlace
  <1>2. Step(u) \/ Human(u) \/ Drop(u)
    BY <1>1, Unmoved
  <1>3. ~Dies
    BY <1>1 DEF Dies
  <1>4. ~Dropped(u)
    <2>1. GuardDropped(u) = {Idle}
      BY DEF GuardDropped, Guarded, MayBeGuarded
    <2> QED
      BY <1>1, <2>1, SetPlace DEF Dropped
  <1>5. Create(u)
    BY <1>2, <1>3, <1>4
       DEF Step, Human, Report, Approve, SendUpstream, Comment, Resume, Drop, CreateInterrupted,
           CutOff, Run, Deliver, TeamFails, Apply, Fallback, Late, WriteInterrupted, HalfWritten,
           Drive, Supersede, SupersedeInterrupted, Propose, Execute, Stop, FollowUp, Record, Drain,
           Abandon, At
  <1>6. ~Fail(u)
    BY <1>1, SetPlace DEF Fail
  <1> QED
    BY <1>5, <1>6 DEF Create

\* A result to be recorded is one that was delivered.
LEMMA ApplyEnters ==
    ASSUME ChainConstants, TypeInv, [Next]_vars, NEW u \in Tasks, task'[u].pc = "apply"
    PROVE  \/ task'[u].result \in Results
           \/ task'[u] = task[u]
  <1>1. task[u] \in TaskType /\ Idle.pc = "idle"
    BY BriefOf, IdlePlace
  <1>2. CASE Deliver(u)
    <2>1. \/ Goto(u, "drive")
          \/ \E r \in Results : Set(u, [task[u] EXCEPT !.pc = "apply", !.result = r])
      BY <1>2 DEF Deliver
    <2>2. [task[u] EXCEPT !.pc = "drive"].pc = "drive"
      BY <1>1 DEF TaskType
    <2>3. ~Goto(u, "drive")
      BY <2>2, SetPlace DEF Goto
    <2>4. PICK r \in Results : Set(u, [task[u] EXCEPT !.pc = "apply", !.result = r])
      BY <2>1, <2>3
    <2>5. [task[u] EXCEPT !.pc = "apply", !.result = r].result = r
      BY <1>1 DEF TaskType
    <2> QED
      BY <2>4, <2>5, SetPlace
  <1>3. CASE ~Deliver(u)
    <2>1. ~Dies
      BY <1>1 DEF Dies
    <2>2. ~Human(u)
      BY HumanEnters
    <2>3. ~Stop(u) /\ ~FollowUp(u)
      <3>1. \A b, seen : /\ [task[u] EXCEPT !.pc = "create", !.seen = seen, !.brief = b].pc = "create"
                         /\ [task[u] EXCEPT !.pc = "create", !.brief = b].pc = "create"
        BY <1>1 DEF TaskType
      <3>2. ASSUME Stop(u) \/ FollowUp(u) PROVE FALSE
        <4>1. \/ Finish(u)
              \/ \E b, seen : Set(u, [task[u] EXCEPT !.pc = "create", !.seen = seen, !.brief = b])
              \/ \E b : Set(u, [task[u] EXCEPT !.pc = "create", !.brief = b])
          BY <3>2 DEF Stop, FollowUp
        <4>2. ASSUME NEW r, Set(u, r) PROVE r.pc = "apply"
          BY <4>2, SetPlace
        <4>3. ~Finish(u)
          BY FinishElsewhere
        <4> QED
          BY <3>1, <4>1, <4>2, <4>3
      <3> QED
        BY <3>2
    <2>4. ~(Step(u) \/ Drop(u))
      BY <1>3, <2>1, <2>3, StepNotAsking DEF NotAsking
    <2> QED
      BY <1>1, <2>2, <2>4, Unmoved
  <1> QED
    BY <1>2, <1>3

\* A request at work has an Issue, and one past its dispatch has one that was looked into.
LEMMA SeatStep ==
    ASSUME ChainConstants, TypeInv, AttendInv, Goes, [Next]_vars
    PROVE  SeatInv'
  <1> SUFFICES ASSUME NEW u \in Tasks PROVE Seated(task[u])'
    BY DEF SeatInv
  <1>1. task'[u].pc = "apply" => task'[u].result \in Results
    BY ApplyEnters, SeatOf
  <1>2. issue' \in {"Open", "Absent"} /\ Reliable' => Reliable /\ issue \in {issue', "Absent"}
    BY DEF Goes, IssueGoes
  <1>3. Reliable => Placed(issue, job, run)
    BY DEF AttendInv, PlaceInv
  <1>4. task'[u] \in {task[u], Idle} \/ Human(u) \/ task[u].pc # "idle"
    <2>1. task[u].pc = "idle" => ~Step(u) /\ ~Drop(u)
      BY DEF Step, Drop, Create, CreateInterrupted, Run, Deliver, TeamFails, Apply, Fallback,
             Late, WriteInterrupted, HalfWritten, Drive, Supersede, SupersedeInterrupted,
             Propose, Execute, Stop, FollowUp, Record, Drain, Abandon, At
    <2> QED
      BY <2>1, Unmoved
  <1>5. ASSUME task'[u].pc # "idle", Reliable', issue' = "Absent" PROVE FALSE
    <2>1. issue = "Absent" /\ Reliable
      BY <1>2, <1>5
    <2>2. task[u].pc = "idle"
      BY <2>1, SeatOf
    <2>3. Human(u)
      BY <1>4, <1>5, <2>2, IdlePlace
    <2>4. Exist = {}
      BY <1>3, <2>1 DEF Placed, Exist
    <2> QED
      BY <1>5, <2>3, <2>4, HumanEnters DEF Approve
  <1>6. ASSUME task'[u].pc \notin {"idle", "create"}, Reliable', issue' = "Open" PROVE FALSE
    <2>1. issue \in {"Open", "Absent"} /\ Reliable
      BY <1>2, <1>6
    <2>2. task[u].pc \in {"idle", "create"}
      BY <2>1, SeatOf
    <2>3. CASE task[u].pc = "create"
      <3>1. Create(u) /\ Admits /\ issue = "Open"
        BY <1>6, <2>1, <2>3, CreateEnters, SeatOf
      <3>2. issue' = "Investigating"
        BY <3>1 DEF Create, IssueNext
      <3> QED
        BY <1>6, <3>2
    <2>4. CASE task[u].pc = "idle"
      <3>1. Human(u)
        BY <1>4, <1>6, <2>4, IdlePlace
      <3>2. NoRuns(run)
        BY <1>3, <2>1 DEF Placed
      <3>3. ~Approve(u)
        BY <3>2 DEF Approve, Held, Exist, RunsOf, NoRuns
      <3> QED
        BY <1>6, <3>1, <3>2, <3>3, HumanEnters DEF NoRuns, Exist
    <2> QED
      BY <2>2, <2>3, <2>4
  <1> QED
    BY <1>1, <1>5, <1>6 DEF Seated

\* Every step keeps all of it.
LEMMA AttendStep ==
    ASSUME ChainConstants, TypeInv, CarryInv, AttendInv, [Next]_vars
    PROVE  AttendInv'
  <1>1. Goes
    BY NextGoes
  <1>2. KeptInv' /\ RunsGo(run')
    BY <1>1 DEF Goes
  <1>3. PlaceInv'
    BY <1>1 DEF Goes, IssueGoes, PlaceInv
  <1> QED
    BY <1>1, <1>2, <1>3, FreshStep, NoneYetStep, OwnStep, SeatStep DEF AttendInv

\* Before the report there is nothing.
LEMMA InitAttends == Init => AttendInv
  <1> SUFFICES ASSUME Init PROVE AttendInv
    OBVIOUS
  <1>1. /\ \A p \in Passes : /\ job[p].status = "Absent" /\ job[p].outcome = "None"
                             /\ job[p].why = "none"
        /\ \A p \in Passes, x \in Proposals :
              /\ run[p][x].status = "Absent" /\ ~run[p][x].reviewed
              /\ run[p][x].approval = "Unevaluated"
        /\ issue = "Absent"
    BY DEF Init, NoPass, NoRun
  <1>2. \A t \in Tasks : task[t].pc = "idle"
    BY IdlePlace DEF Init
  <1>3. KeptInv /\ NoneYet /\ PlaceInv
    BY <1>1 DEF KeptInv, Kept, NoneYet, PlaceInv, Placed, NoRuns
  <1>4. Fresh
    BY <1>1, <1>2 DEF Fresh, SentBack, SendsBack
  <1>5. Apart /\ Blank /\ SeatInv
    BY <1>2 DEF Apart, Blank, SeatInv, Seated, Own, Before
  <1> QED
    BY <1>3, <1>4, <1>5 DEF AttendInv

\* The invariant holds throughout.
LEMMA Attending == Spec => []AttendInv
  <1>1. Init => AttendInv
    BY InitAttends
  <1>2. TypeInv /\ CarryInv /\ AttendInv /\ [Next]_vars => AttendInv'
    BY AttendStep, ChainConstants
  <1> QED
    BY <1>1, <1>2, Typed, CarriedAlways, PTL DEF Spec

\* The latest pass asked for a human, or for what it could not get, in as many words.
Asked == LatestPass \in Exist /\ job[LatestPass].status \in {"WaitingForHuman", "Blocked"}

\* An Issue that nobody works on and that has a result either asked, or is attended.
LEMMA AskedOrAttended ==
    ASSUME ChainConstants, TypeInv, AttendInv, ~Asked
    PROVE  Attended
  <1> DEFINE L == LatestPass
  <1> SUFFICES ASSUME ~Closed, ~cut.status, L \in Exist, Resting, job[L].outcome # "None",
                      job[L].status \notin {"Superseded", "Cancelled"}
               PROVE  DecisionPending \/ AwaitsInput \/ job[L].reviewed
    BY DEF Attended
  <1>1. L \in Passes /\ job[L] \in JobType /\ job[L].status # "Absent" /\ Kept(job[L])
    BY DEF TypeInv, JobsType, Exist, AttendInv, KeptInv
  <1>2. job[L].status \in {"NeedsResnapshot", "Completed", "Failed"}
    BY <1>1 DEF Kept, Asked, JobType, JobStatus
  <1>3. CASE job[L].status \in {"NeedsResnapshot", "Failed"}
    BY <1>3 DEF DecisionPending, JobNeedsReview
  <1>4. CASE job[L].status = "Completed"
    <2>1. issue \in IssueStatus \cup {"Absent"} /\ Placed(issue, job, run)
      BY DEF TypeInv, AttendInv, PlaceInv, Reliable
    <2>2. issue \notin {"Open", "Absent", "Investigating"}
      BY <1>1, <2>1 DEF Placed, Underway, Resting, Exist
    <2>3. issue # "Verifying"
      BY <2>1 DEF Placed, SomeRun, Resting, Exist
    <2>4. issue = "Mitigating" => DecisionPending
      <3>1. ASSUME NEW p \in Passes, NEW x \in Proposals, job[p].status # "Absent",
                   run[p][x].status \in Acting
            PROVE  DecisionPending
        <4>1. p \in Exist
          BY <3>1 DEF Exist
        <4>2. run[p][x].status = "Ready"
          BY <3>1, <4>1 DEF Resting, Acting
        <4>3. x \in RunsOf(p)
          BY <4>2 DEF RunsOf
        <4> QED
          BY <4>1, <4>2, <4>3 DEF DecisionPending
      <3> QED
        BY <2>1, <3>1 DEF Placed, SomeRun
    <2>5. issue \in {"Mitigating", "WaitingForHuman"}
      BY <2>1, <2>2, <2>3 DEF IssueStatus, Closed, IssueTerminal
    <2> QED
      BY <1>4, <2>4, <2>5 DEF AwaitsInput
  <1> QED
    BY <1>2, <1>3, <1>4

\* Whatever Teams conclude, and wherever requests are cut off: an Issue that nobody works on
\* and whose latest pass has a result has a decision pending, awaits a comment, or was reviewed
\* - unless that pass itself asked for a human or is blocked, for which the inbox has no entry,
\* or the Issue was never reconciled with what a request wrote that was cut off (inbox,
\* reconcile_issue, recover_with).
THEOREM AttendedOrAsked == Spec => [](Attended \/ Asked)
  <1>1. TypeInv /\ AttendInv => Attended \/ Asked
    BY AskedOrAttended, ChainConstants
  <1> QED
    BY <1>1, Typed, Attending, PTL

\* What the Operate Team concludes: never that a human is needed, nor that it is blocked
\* (ReadOnlyTeam, HarnessTeam and run_team's own failure).
OperateResults == \A r \in Results : r.outcome \notin {"NeedsHuman", "OptionsReady", "Blocked"}

\* With the Team the controller ships, an Issue that nobody works on and whose latest pass has
\* a result is attended, for any number of passes, proposals and requests, through dropped
\* requests, restarts and writes that are cut off, as long as the Issue was reconciled with
\* them since (inbox, reconcile_issue, recover_with).
THEOREM AlwaysAttended == OperateResults => (Spec => []Attended)
  <1> SUFFICES ASSUME OperateResults PROVE Spec => []Attended
    OBVIOUS
  <1>1. TypeInv /\ AttendInv => Attended
    <2> SUFFICES ASSUME TypeInv, AttendInv PROVE Attended
      OBVIOUS
    <2>1. ASSUME Asked PROVE FALSE
      <3>1. Kept(job[LatestPass])
        BY <2>1 DEF AttendInv, KeptInv, Asked, Exist
      <3>2. Said \cap {"NeedsHuman", "OptionsReady", "Blocked"} = {}
        BY DEF Said, OperateResults
      <3> QED
        BY <2>1, <3>1, <3>2 DEF Asked, Kept
    <2> QED
      BY <2>1, AskedOrAttended, ChainConstants
  <1> QED
    BY <1>1, Typed, Attending, PTL
=============================================================================
