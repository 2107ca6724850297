# TLA+ verification of the Broccoli DevOps Agent

The agent is a control plane (`src/src`, Rust on tokio) that watches a deployment, opens
Issues, runs model-driven investigation passes (Jobs), and — through one gateway — lets their
proposals change machines. Everything a human relies on is a promise of that gateway: nothing
runs without consent, nothing runs twice, nothing ends unseen, and a restart pretends nothing.
This directory states those promises in TLA+, checks them with TLC and proves the central ones
with TLAPS.

    tlc -workers 2 -config GatewayApproval.cfg MCActionGateway.tla
    tlc -workers 2 -config ModeRestart.cfg MCModeRecovery.tla
    tlc -workers 2 -config Lanes.cfg MCExecutionLanes.tla
    tlc -workers 2 -config Chain.cfg MCPassChain.tla
    tlc -workers 2 -config TeamRun.cfg MCTeamRun.tla
    tlc -workers 2 -config Intake.cfg MCIntake.tla
    tlc -workers 2 -config Administration.cfg MCAdministration.tla
    tlapm ActionGatewayProofs.tla      # and GatewayOutcomeProofs.tla
    tlapm ModeRecoveryProofs.tla
    tlapm ExecutionLanesProofs.tla
    tlapm PassChainProofs.tla
    tlapm TeamRunProofs.tla
    tlapm IntakeProofs.tla
    tlapm AdministrationProofs.tla

## 1. Inventory

Paths are below `src/`.

| Component | State it keeps | Operations | Where |
|---|---|---|---|
| Domain status machines | `Issue`, `Job`, `ActionRun` records | transitions, reviews, predicates (`has_failed`, `needs_review`, `holds_idempotency_claim`) | `src/domain/*.rs` |
| Top Scheduler: action gateway | mode, lifecycle lock | `create_action_run`, `approve_action`, `reject_action`, `review_action`, `execute_action`, `verify_action`, `reconcile_issue`, `close_issue` | `src/scheduler.rs` |
| Top Scheduler: modes and recovery | mode in memory, mode events in the log | `freeze_dispatch`, `freeze_all`, `resume`, `recover_with`, `persisted_mode` | `src/scheduler.rs`, `src/main.rs` |
| Top Scheduler: Jobs | Jobs in the store, cancellation handles | `dispatch_job`, `create_job`, `supersede_job`, `handle_callback` | `src/scheduler.rs` |
| Top Scheduler: triage | triage lock | `triage_candidate` | `src/scheduler.rs` |
| Slice runner | queue lock, follow-up lock, review lock, per-run execution locks | pass loop, follow-ups, proposals, approval, resume, reviews, intake loop, inbox | `src/runner.rs` |
| Store | all records and the event log under one lock, files or memory | insert, `update_*_if` (whole-record compare-and-set), `claim_idempotency_key`, `append_event` | `src/store/*.rs` |
| Authority matrix | classification lists, repeat window | `decide` | `src/policy.rs` |
| Operations registry | active operations, cancel handles | `run_with_id`, `cancel`, phases | `src/operations.rs` |
| Platform | one lock per target resource | `run`, time limit, process-group kill | `src/platform.rs` |
| Operate Team | one pass's run state | tools, end conditions, callbacks | `src/team/*.rs` |
| Agent harness crate | transcript, budgets | bounded tool loop with retries and cancellation | `crates/harness` |
| Judge, collector, topology | none; immutable Snapshots | probes, rule findings, a read-only model run | `src/judge.rs`, `src/collector.rs` |
| Views, evidence, artifacts | content-addressed files | redaction, digests | `src/view.rs`, `src/evidence.rs` |
| Accounting and spend | request ledger in the event log | record usage, freeze when spent | `src/accounting.rs`, `src/usage.rs` |
| Live settings | one lock | classify, change under a freeze | `src/settings.rs`, `src/config.rs` |
| Session archive | archived records | export, import | `src/session.rs` |
| HTTP API, CLI, consoles | none | routes, startup of `serve` | `src/api.rs`, `src/main.rs`, `crates/tui`, `web` |

**How they interact.** API handlers run inline in the request's future and call the runner; the
runner calls the Scheduler; the Scheduler reads and writes the store, asks the authority, the
Platform and the Collector. There is no database transaction: every store operation is atomic by
itself, an update is a compare-and-set on the whole record, and an event is a separate write.
Handlers share four kinds of lock: the lifecycle lock (closing and reconciling against admission
and insertion), the mode lock, the per-run execution lock, and the queue lock of `resume`.

**What is hard.** (a) Any two requests interleave between two store operations. (b) The process
may end between any two of them; startup recovery repairs what it finds. (c) A request's future
may be dropped: its caller disconnects or an operator cancels the operation. (d) The Issue's status is
derived from its work by whoever touched it last. (e) The mode is in memory and in the log, in
two steps.

**What makes each component correct.** *Gateway:* at most one run of an idempotency key is past
its claim; at most one command of a key executes; nothing is executed against the matrix;
closing an Issue stops what has not started; every ending is seen; no derived status is lost;
every write follows the status machines. *Modes and recovery:* a freeze survives a
restart; nothing in flight is left without an owner; only a clean restart resumes by itself.
*Passes:* a pass that ended stays as it ended, is superseded or resumed at
most once, is carried by somebody while it runs, budgets bound a chain, and a chain that has ended
waits where a human sees it. *Triage and intake:* one live Issue per incident, no merged evidence
lost, no Issue from evidence older than a closure, no automatic Issue left waiting. *Lanes:*
commands on a common resource exclude each other and never deadlock. *Team and harness:* budgets
bound every run, a cancelled run reports nothing, every run ends. *Accounting:* the ledger tells
what reached the provider, and the ceiling is overshot by one answer of each run at most. *Authority:*
the document's table, and nothing automatic outside scope. *Store:* every operation is atomic
through failures and restarts, acknowledged events survive. *Settings:* a value changes only
because somebody asked for that value. *Archive:* whole, and never controlled.

## 2. Plan

The modules exist, and every safety property of the passing runs is proved, but for
`AuthorityTable`, which is about a finite table. What is left, in this order:

1. **ActionGateway** under weaker hypotheses than `HandsOff`: an approval that reaches a Proposed
   run breaks the key's exclusion (6), but consent fails only for denied runs.
2. A chain specification for PassChain to refine, as ResourceExclusion is for the lanes and
   AtomicStore for the store.

For the model: power loss in the store, and background processes of a command, would be the next
refinements.

## 3. Modules

| Module | Models | Lines of the code |
|---|---|---|
| `Lifecycle` | the status machines of Issue, Job and ActionRun, their predicates, and `derive_issue_status`, as pure operators | `domain/*.rs`, `scheduler.rs:2664-2792` |
| `ActionGateway` | the gateway's handlers, their locks, crashes and recovery | `scheduler.rs:1241-2343`, `runner.rs:1601-1743` |
| `GatewayClaims` | what the documentation says of the gateway and the code does not do | — |
| `MCActionGateway` | the small instances | — |
| `ActionGatewayProofs`, `GatewayOutcomeProofs` | types and exclusion; consent, endings, closing, statuses: proved | — |
| `ModeRecovery` | modes, the event log, interrupted recovery, automatic resume | `scheduler.rs:60-105, 2083-2385, 2610-2650`, `main.rs:744-803` |
| `MCModeRecovery`, `ModeRecoveryProofs` | its instance and its proofs | — |
| `ExecutionLanes` | the Platform's execution block: lanes, commands, time limit, cancellation | `platform.rs:92-250, 471-640` |
| `ResourceExclusion` | what the lanes promise, without locks and processes | — |
| `MCExecutionLanes`, `ExecutionLanesProofs` | its instance and its proofs | — |
| `PassChain`, `MCPassChain`, `PassChainProofs` | one Issue's passes: dispatch, Team, callback, follow-up, supersession, revision, recovery | `runner.rs`, `scheduler.rs:385-1240`, `job.rs` |
| `TeamRun`, `MCTeamRun`, `TeamRunProofs` | a pass inside: the agent loop, its tools and budgets, the request ledger, the spend ceiling | `team/harness.rs`, `crates/harness`, `accounting.rs`, `usage.rs` |
| `Intake`, `MCIntake`, `IntakeProofs` | captures, reviews, triage, the worker that dispatches automatic Issues | `runner.rs:769-1100`, `scheduler.rs:447-691`, `judge.rs` |
| `Authority`, `AuthorityTable` | the action authority as pure operators; what its document promises, as assumptions | `policy.rs`, `scheduler.rs:1325-1367` |
| `AtomicStore` | what a store promises, as the in-memory one keeps it | `store/memory.rs` |
| `FileStore` | the file-backed store, file operation by file operation | `store/file.rs` |
| `Archive` | importing a session over the store; recovery beside it | `session.rs:255-460`, `view.rs:64-93` |
| `Settings` | changing settings while the controller runs | `settings.rs`, `api.rs:262-290` |
| `Administration`, `MCAdministration`, `AdministrationProofs` | imports and settings over one store, in one process that may end | `main.rs:744-803` |

*How they compose.* Lifecycle is extended by ActionGateway, PassChain and Intake; ActionGateway's
rows are computed by Authority. PassChain, TeamRun and Intake each see the others as one step: a pass of
Intake is PassChain's chain, a Team of PassChain is TeamRun's run, a proposal of PassChain is
ActionGateway's handler, a freeze by the spend ceiling is an operator's freeze outside TeamRun. Archive and
Settings extend FileStore and are composed by Administration: their clients share its lock, and a
crash ends all of them. What ActionGateway, PassChain and Intake assume of the store (every
operation is a step) is what FileStore is shown to give them.

### ActionGateway

*State.* `run` and `issue` are the persisted records, reduced to what the handlers branch on:
of an ActionRun its status, its approval, whether a review is recorded, whether an output
artifact shows a command was stopped half-way, whether it was a dry run, and the verification
evidence. `logged` is the mode the event log tells. In memory are `mode`, the lifecycle `lock`
and `task`, the requests in flight. A task's `pc` names its next store operation; `run`
and `issue` what it works on; `seen` what it read or was answered; `then` what follows its
reconciliation; `exec` whether it holds the run's execution lock; `queue` the proposals or the
queued runs still to do.

*Actions.* One per store operation or critical section: `Propose`, `Insert`, `Claim`,
`Evaluate`, `Settle` are `create_action_run`; `BeginApprove`, `Approve` are `approve_action`;
`Reject`, `Review` the two other decisions; `Resume`, `ListQueue`, `Drain` the durable queue;
`Execute`, `Admit*`, `Park`, `PlatformReturns`, `Verify` execute and verify; `Reconcile`,
`Apply`, `Sweep`, `Swept` are `reconcile_issue`; `Close` closes; `Drop` ends a
request where it stands; `Crash` and the `Boot*` actions are a restart. Every handler ends in the
reconciliation the code ends in (`ReconcileThen`).

*A compare-and-set* (`Update`) compares statuses only: the code compares the record, and a
record of unchanged status is unchanged, since every write moves its status or records its one
review. *Conflict* ends the request, as the `?` in the code does. The lifecycle lock is kept
explicit only where something can happen under it: `Insert` and `Admit` are single
steps because everything they read is protected while they run; a reconciliation is a
read, a write and one sweep step per run because runs change under it.

*Parameters that restrict what humans do.* `Approvable` and `Rejectable` are the statuses in
which an approval or a rejection request reaches a run. The code checks neither; the consoles
only offer waiting runs. The passing runs choose the statuses under which the guarantees hold,
and the claims show what happens outside.

*Left out.* The passes are completed and have no follow-up (PassChain's subject); the reviewer's
"send upstream" decision (PassChain's as well); archived records (Archive's); texts, snapshots and artifacts; the repeat window of
rule 5 never expires; the Platform's errors other than by result; a failing store.
`Evaluate` is one step although it reads the store and asks the Platform.

### ModeRecovery

*State.* `mode` is the memory; `log` is what `persisted_mode` would read from the events so far,
kept incrementally by `ReadMode`, `ReadRecoveryStarted` and `ReadRecovered`, one per branch of its loop;
`caller` holds modes that are set and not yet recorded; `work` is the persisted status of Jobs
and actions and `carrier` tells who carries it in this process; `boot` is startup, one phase per
step that a crash can separate. `decided` and `unlooked` are history variables: the last mode
recorded outside recovery, and what was interrupted since a human last resumed.

*Left out.* What the work does (ActionGateway and PassChain), reconstructed reviews, which count like
verified actions for a clean restart. `recover` on the command line is a start that ends in a crash.

### ExecutionLanes

*State.* `stage` is the await point of `run` a request is at; `queued` and `ahead` are the
lanes. A lane is a tokio mutex, a fair queue, and is kept as a set of requests with, for each,
those that came before it: the same information as a sequence, in a form that is easy to reason
about when a waiter in the middle leaves. Nobody ahead means holding. `ran` and `outcome` are
what the record will say, `shell` the live `sh` processes, `signalled` the operation's
cancellation. `earlier` is a history variable.

*Actions.* `Admit`, `Acquire`, `Acquired` are `acquire`, with `GiveUp` for the cancelled waiter;
`Check`, `Spawn`, `SpawnError`, `Exit`, `TimeOut`, `Kill`, `Stop`, `AllRun` the loop over the
targets, where the check for a cancellation and the spawn are two steps; `Finish` the record and
the return; `Drop` a future that goes away, whose innermost await, the command, goes first.

*Refinement.* `inside` is the set of requests between `acquire` and the return, `touching` the
live shells: `Serialized` says every behaviour is one of `ResourceExclusion`.

*Left out.* What is refused before the lanes is one action (`Decline`); a store that does not keep
the record (the request ends all the same); the guards are given back in one step, since nobody can
tell; the background processes of a command, see 6; a change of the live settings (the
request works with the configuration it read).

### PassChain

*State.* `job` and `run` are the persisted passes and their ActionRuns, `issue` the Issue; a `task`
is a request with the await point it is at (`pc`), the pass it drives, and the `brief` of the pass it
is about to create: why, from which pass, with which budget. `begun` and `heard` remember that a Team
was started and that its callback was logged. `cut` is a history variable for three things a request that
was cut off may leave undone until somebody does them: the rest of a closed Issue's sweep, a reconciliation,
the failure of a pass (`lost`).

*Actions.* `Report`, `Create`, `Run`, `Deliver`, `Apply` are a human report and `run_team` with its Team;
`TeamFails`, `Fallback`, `Late` are what `run_team` does in the place of a Team that ended without a
result, when the guard is finished already. `Drive`, `Supersede`, `Propose`, `Execute`, `Stop` are
`drive_passes`; `Approve`, `Resume`, `Drain`, `FollowUp` what resumes a chain; `SendUpstream`, `Record`,
`Comment` what humans send back; `Close`, `Freeze`, `Acknowledge`, `Reject` the rest of their decisions.

*What is one step, and what may cut it.* What runs under the lifecycle lock is one step, and what the
gateway does with one proposal is one. Nobody else may come in between under the lock, but an error
of the store, a dropped request and a crash may, so each has a second form that ends between two of its
store operations. `CreateInterrupted` and `SupersedeInterrupted` write the one record and not the other.
`WriteInterrupted` and `DecisionInterrupted` write what a request (`HalfWritten`) or a human's decision
writes, a proposal or an execution down to each of its own steps (`ProposalCutIn`, `RunCutIn`), and leave the Issue
unreconciled, or reconciled half-way (`CutIn`). A closure, and a reconciliation that ends the Issue, is cut in its sweep:
some Jobs, and then some runs, are cancelled and the rest is not (`CommitCutOff`). `Drop` is a request that goes away
where it stands: its `RunningJobGuard`, when there is one, leaves `Abandon`; `Crash`, `Recover` are a restart.

*Left out.* Supersession of a pass by a human's message, which takes the same path as a revision;
the health half of `clamp_outcome`; a Platform that answers that a human is required, and what others do while a
proposal is inserted, decided and executed, which is ActionGateway's subject. The three reconciliations of a
recovery are its last one.

### TeamRun

*State.* `run` holds the loop's counters, the tools still to call, what the run's tools share, its
cancellation `token` and the `grace` an operator's interruption gives; `ledger` is the durable rows of its requests;
`seen` what the provider received, which only the model knows.

*Actions.* `Turn`, `Check`, `Open`, `Send`, `Provider`, `Hangup`, `Close`, `Backoff` are one
attempt of one turn; `NextCall`, `Tool` its tools; `Deliver`, `Fallback`, `DeliveryFails`, `Abort` how a run
reaches the Scheduler or is dropped; `CancelPass`, `CloseIssue`, `Resume`, `Crash`, `Recover` its surroundings.

*Abstractions.* The finish record and the budget it is read for are one step, as are the end of a
run and `freeze_if_budget_spent`. Progress is a queue that the Scheduler may refuse at any
moment once the Job has ended (`DeliveryFails`). The bridge from the pass's interruption to
the loop's token is merged into the interruption. The ceiling is one number of tokens that stays as it is
(a ceiling on cost is the same comparison); zero, which disables the check in the code, is not an instance.
Loop locals are dropped when the loop ends. What a conversation says is left out, with the model's context
limit as one of the bounded faults.

*Left out.* A terminal tool that outlives its time limit (`agent.rs:690-703`); a store error in the delivery
of progress while the Job still runs (`team/harness.rs:1105`, `:1115`); a finish record that is written when the
read of the budget behind it fails (`accounting.rs:188`). `RunsEnd` says that the run ends,
not that its Job is handed a result: a store error may take it, see 6, *Passes*.

### Intake

*State.* `issues` in order of insertion, `jobs` those that have one, `review` what is recorded of
every Snapshot; a Snapshot is its creation time. `copies` tells whose read of an Issue is still what the
store holds: a compare-and-set of a task outside it is a Conflict, whichever field was written, because every
write moves `updated_at`.

*Actions.* `Capture` to `CompleteReview` are a capture with its review, `BeginTriage` to
`MergeWrite` the triage of one finding with its two readings of the Issues, `Scan` to `BeginJob` the
worker's dispatch, `EndPass` the whole pass; `Close`, `Freeze`, `Drop`, `Crash`, `Recover` the rest. Reviews are serialised by `snapshot_review_lock`,
so `triage_lock` is never contended between two findings (a human report takes it too, and carries no key) and is not modelled. With `Advised` a policy may merge a finding into any live Issue or
refuse it. Validation errors and the judge's text are left out.

### Authority

Pure operators: `AuthorityOf` is the matrix, `Classify` the Runbook Registry with the operator's
lists, `InScope` and `Decide` the authority's decision, `Outcome` what the Scheduler makes of it. Addresses and
metacharacters are sets (`known`, `unsafe`): matching prefixes and characters is data.
AuthorityTable states `docs/action-authority.md` as assumptions evaluated by TLC with
every run of MCAdministration: the table row by row (`TableEncoded`), that a contest only makes it
stricter, one class per runbook, and over every proposal of a small world that automatic means in
scope, of an allowed kind, held and not repeated; that unknown runbooks are held or denied; that lists resolve to the
stricter class; that no Team can change the mode.

### FileStore, AtomicStore

*State.* `disk`, `temp` and the event file are what a restart finds, `index`, `events`, `next` the memory,
`holder` the index lock, `op` each caller's operation, `acked` the events whose append returned, ever.
The event file is the lines that parse (`file`), what follows the last newline (`tail`: nothing, a part of
a line, or a record without its newline) and whether a line was written onto such a tail (`garbled`).
*Actions.* One per file operation of `write_doc` and `append_event_line`, each of which may fail
(`FileError`) or be the last (`StoreCrash`). Either may cut a line off (`CutOff`), and after an error the
process goes on: the next line is written behind the part (`WriteLine`). `Open` is `open`, which keeps a
last record without a newline as it is, and `OpenFails` an `open` that finds a line that does not parse.
Reads and refusals are one step: they take the lock and touch no file. A caller's future cannot be dropped
while it holds the lock, since there is no await there.
*Refinement.* A document has its new value when the rename has happened, an event its place when the line
is written; `Seen` says how far a call is on that account. A crash is `Leave`: calls and replies are
lost, nothing else. A cut-off line mars the abstract log (`marred`), and the next append is then not in it.
*Left out.* Power loss: a rename is not followed by a sync of the directory, and the model's disk keeps it.

### Archive, Settings, Administration

An import is a script of store operations (`Script`) with one Job and one action run for all of them; `import` says
at which step each is and how it went. The artifact's body is a file of its own, written in place. Recovery
is a client that ends what `live_unfinished` names. Command-line imports by another process on the same
directory are left out.

A change of settings is one action per await of `update_settings`; the three keys stand for a live setting,
for `dry_run`, and for a classification list. A config path is always given; parsing and validating a configuration are
left out. `doubt` is set while a change is in force that was never recorded, and cleared by a restart.

## 4. Runs

| Run | Instance | Shows |
|---|---|---|
| `gateway_approval` | two runs of one key from two passes of one Issue, both need approval; two requests, one crash, freezes | key and execution exclusion, consent, quiet closing, inbox, lost updates, the status machines, settled resolution |
| `gateway_matrix` | one automatic run whose command may be missing, one denied; rejections also of executing runs, one dropped request, triage merging | consent under the paths the first run does not have |
| `gateway_progress` | `FairSpec`, one crash; no dropped request, which leaves its run Running until a restart (6) | started runs settle, requests end |
| `mode_restart` | two Jobs, two actions, two requests at once that may be dropped half-way, three crashes | nothing orphaned, the log keeps a freeze, recovery's freezes are no decisions, resuming heeds earlier recoveries |
| `lanes` | `FairSpec`; four requests on two resources, two for both in opposite orders, one of them cancelled, one dropped | ordered waits, order of service, accounting, every request ends, and the refinement |
| `pass_chain` | two requests, three passes of one Issue, two automatic passes per chain, one proposal per pass that is automatic, to be approved or not implemented; a Team that asks for probes, proposes with a follow-up, or claims success; one way to close and one to freeze; up to two passes with two faults: a write or a sweep cut off, a request dropped or failing, a crash | carried passes, quiet closing, the chain's bound, one successor, attended ends, ended passes never change |
| `team_run` | `FairSpec`; one run with the full repertoire and one that spends beside it, a ceiling of three tokens, one cancellation, one fault | the ceiling's overshoot, the truth of the ledger, whole results, the budgets, every run ends |
| `intake` | `FairSpec`; a periodic and a manual capture, two incidents, one closure, one freeze, one fault | one Issue per incident, evidence carried, nothing reopened by old evidence, the worker drains |
| `administration` | two imports, two changes of settings, recovery; two requests and two faults; four stores to import into | the refinement of the store, acknowledged events through failed and cut-off writes, archives, settings; and AuthorityTable |
| `claim_*` | the smallest instance each | one documented statement each, violated; see 6 |

*Bounds.* Two requests are enough for every race in the code: each critical pair is one reader
and one writer of a record, and a crash replaces a third. Two runs make a
duplicate; two passes make them concurrent. One crash reaches every point recovery may start
from in the gateway; a crash inside recovery differs only in what it records at its
end, which is ModeRecovery's subject: there three crashes allow a recovery to be cut twice.
`MaxDrops` and `MaxCrashes` are the only counters; the state is otherwise finite. Requests are
interchangeable, so TLC uses symmetry on `Tasks` in the safety runs only. The gateway's, the modes' and
the lanes' runs keep the deadlock check.

For the lanes two resources make a circle possible and four requests put two waiters behind one
holder on the lower lane and a waiter with a lane already held on the upper one. Only one request
is cancelled: a cancellation concerns one request, and the others meet its effect in the queue.

For a chain three passes are needed for one to be too many when two are allowed; one proposal makes a
follow-up, and two requests race for it. Faults are bounded by their number (`MaxFaults`) and to Issues of at
most `FaultyPasses` passes: two faults over two passes make a cut-off write meet a second cut-off write, or a restart, with a
predecessor and a successor there, and a third pass repeats that with one more. An execution of the instance goes well
with a weak effect; failed ones come from restarts. For the Team the budgets are as small as
lets each be exhausted: two turns and one to wrap up, one retry, one inspection of two asked for, and a
ceiling the two runs reach together. For intake two captures are two reviews that end in either order, and
one of them finds both incidents. For the administration two requests make either two
imports, two changes, or one of each over one log; two faults let an
import fail twice or a restart follow a failure. These four runs switch the deadlock check off:
their requests are bounded, nobody has to make another, and a store that does not open stays closed.

*Fairness.* In ActionGateway `FairSpec` assumes strong fairness of a task's own work: tokio's mutexes are fair
queues and every command has a time limit, so a request that can move again and again does;
strong because the lifecycle lock is taken and freed by others meanwhile. Weak fairness of
`Boot`: nothing competes with startup. Nothing is assumed of humans: no request has to arrive. In ExecutionLanes `FairSpec` is weak
fairness of each admitted request: once first in a queue it stays first, and a time limit ends every command.
In TeamRun weak fairness of each run's own steps together with its provider: the transport has a
request timeout, so a request is answered, fails or is hung up; nothing is
assumed of operators or of the grace period. In Intake weak fairness of the worker alone: it wakes every
second whether it is notified or not; reviews may hang.

*Faults.* Definitions marked `Fault:` in a comment are plausible bugs of the definition below
them; with one put in place of the original the run named in PROJECT.json finds the property
violated.

## 5. Proofs

Every theorem is about the specification whose instance the runs check, for all values of the
constants that satisfy the named assumption of its module: any number of runs, passes, Issues,
requests, captures, callers, crashes. The assumptions are types (`GatewayConstants`,
`ModeConstants`, `LaneConstants`, `ChainConstants`, `TeamConstants`, `SettingsConstants`), finiteness where
something is summed (`BudgetConstants`: a ceiling is set, runs are finitely many, a run has a largest answer), distinctness
of names that stand for different things (`TasksAssumption`, `StoreConstants`: no value is
the mark of a cut-off line or of "nothing there"; `AdministrationConstants`: an import is not a
settings change) and what a session consists of (`ArchiveConstants`). TLC evaluates each of them on
the runs. Two theorems on the gateway restrict what humans or triage do, named in their
hypotheses, because the statement is false without it.

The proofs share a plan. What a step may do is classified once, by *shape* (a lemma per action:
this record is written, that request moves, nothing else changes), and every property is then
shown for a few shapes instead of for every action. Facts about one record are stated with the
record as a parameter, so that they are used before and after a step alike.

### The gateway

`Typing`: more than types: a task's `pc` tells what it works on and whether it
holds the execution lock (`TaskOK`), and the lifecycle lock is held by exactly the task that
applies or sweeps (`LockOK`).

`ExclusionHolds`, `OneClaimPerKey`, `OneExecutionPerKey`, under `HandsOff`: an approval reaches no
Proposed run and a rejection no Running one. Without it the statements are false, and
`claim_no_duplicate` shows it. `ClaimExclusion` alone is not inductive: it must be known that a
run is inserted once, by one task, whose queue shrinks (`InsertedOnce`), and that the run at the
Platform is Running and its lock held by one task (`ExecutedOnce`). Then a step can only (i)
leave the runs past their claim as they are (`QuietStep`), (ii) take runs out of that set
(`Withdraws`), or (iii) move a run along inside it (`Advances`); the single step that adds a run
is `Claim`, which looks for another holder under the store's lock. `InsertedOnce` makes that
sound: two claims of one key in a row see each other's run, because a run is inserted before its
claim and counts from its insertion.

`NothingWithoutConsent` (`Consent`, under `HandsOff`): a verdict a request carries to its write is one
the matrix gives (`VerdictsPermitted`), and nothing waits for an approval that could not allow it
(`WaitsForConsent`). The run `gateway_matrix` checks `Consent` outside `HandsOff` too.
`EndsSeen` (`EndsInInbox`): reviews, denials and outputs of stopped commands are found on ended
runs only (`MarksEnded`), so no ending is reviewed before it happens. `ClosedStaysQuiet`:
whatever could start on a closed Issue is about to be swept, by the request that closed it, by the reconciliation
of the request that parked it, or by startup (`AboutToBeSwept`); a dropped request is excepted, as
in `ClosedQuiet`. `ReconcileNeverLost`, under `~Merges`: an Issue that is behind what its work implies has a request that
*owes* it a reconciliation, and a reconciliation that is about to write what it read too
early has another one behind it (`OwedNow`). With merges by triage the statement is false, see
6. `StatusesFollowMachines` and `ResolvedOnlySettled`, under `HandsOff`, are action properties:
the decision to resolve was made on an earlier read, and what it was based on (`AllSettled`) stays
so until the write, since no run of the Issue is added or restarted under the lifecycle lock.

### Modes and recovery

`ModeTyping`; `NothingOrphaned` (with: after reconciling nothing is in flight until serving
starts); `LogHistory` and `RecoveriesHeeded` (the log is inside recovery's marks exactly while
recovery is, and what was read back is still so at the decision); and `RestartRestores`,
for any number of requests at once: unless the last change of mode went `astray`, whatever is
still to be recorded is the mode in memory (`MemoryOK`). Without the exception the statement is
false: see 6, *Modes and recovery*.

### Lanes

`LaneTyping`, `WaitsAreOrdered`, `ServedInOrder`, `TargetsAccounted` and the refinement
`LanesSerialize`. Their invariant `LaneInv` adds to the properties that whoever is inside holds every lane
it wants (`InsideHoldsAll`), that a queueing request is on its first lane (`FirstLaneTaken`), and
behind those that queued there before it (`Behind`). A step either leaves the lanes, joins the
next one, or does not touch them (`ThreeWays`), so each part is shown three times instead of once
per action. The step of the refinement that needs the invariant is `Acquired`: two holders of a
common lane would each be ahead of the other. A record accounts for its targets already when the
loop is over, before it is stored (`Accounted`).

### Pass chains

`ChainTyping` includes that passes are numbered in the order of creation and each came from an
earlier one. A step adds a pass, begins one, or changes records *later* in their machine
(`Later`), ordinarily without beginning anything (`Ordinary`); that an ended record has no later one is
`EndedForGood`, and that nothing but an addition makes a record that is not ended is what
`ClosedIsQuiet` needs, together with the lifecycle lock under which passes are added; a sweep cut off after the write of
the Issue (`cut.sweep`) is excepted. `BegunAreCarried`: a running pass that a
request is at is either not begun, and then that request's alone, or carried by its Team, the
guard that takes over when the future is dropped, or the delivery of its failure in its place (`CarryInv`); one
whose delivery was itself cut off is excepted (`cut.lost`). `OneSuccessor`: a pass is superseded
before its successor exists (`SupersededFirst`), so a second supersession is refused; and the follow-up
lock leaves at most one request that resumes a chain, before the chain was resumed
(`OneResumes`, `NotYetResumed`). `ChainIsBounded`: a pass has as much more to spend as it is
further back on its line (`LineBudgets`), budgets are natural numbers below the policy's maximum, and so no line
is longer.

`AlwaysAttended` and `AttendedOrAsked`, from `AttendInv`. The status of the Issue may lag behind its work, since a
reconciliation moves it only where its machine goes; `Placed` says how far: an Issue that is Investigating, Mitigating
or Verifying has a pass or a run that keeps it there, and one that is Open has no results yet. A
reconciliation that is cut off leaves a status nobody can trust (`cut.status`); one that goes through later finds
the Issue a place again (`Placing`). An Issue at rest is then waiting or resolved, and its latest pass
has a pending decision, awaits a comment, or was reviewed. That needs `Fresh` (nobody decided
against a run before its end, so what a restart failed is still to be seen), `Apart` and `Blank` (a proposal is
tried once, by one request, so that no run that keeps an Issue in its place is written over), `Kept` (a pass has
an outcome only from its Team or a restart) and `SeatInv` (a request at work has an Issue).
`AlwaysAttended` assumes `OperateResults`: no Team concludes NeedsHuman, OptionsReady or Blocked. The Operate
Team constructs only Solved, DiagnosisOnly, NeedsMoreData and Failed (`team/readonly.rs`,
`team/harness.rs`), `run_team` itself only Failed. `AttendedOrAsked` is what holds without that assumption.

### Teams

`TeamInv` says of each run separately what its task, its rows of the ledger, the requests it
sent, its Job and its result have to do with each other (`Good`), so each step is shown for
the run that moves (`RunMoves`); the only thing it does to others is to set the token of runs with a request in flight when
the ceiling is reached, which changes nothing of theirs (`SetToken`). `LedgerAlwaysTrue`: between
two requests every row is closed, during one exactly the last is open, and where the task is tells whether it was sent
(`Recorded`). `LimitsHold`: a request is paid for by a turn or a retry before it is recorded
(`Limited`: rows and the one ahead are at most turns and retries), and turns beyond the budget by
wrap-ups. `ResultsWhole`: a run whose token was set in its loop ends without a conclusion, one that claims success
has proposed nothing, and only what waits for delivery becomes a result (`Whole`). `TeamTyped` is
the type invariant.

`OvershootBounded` is about a sum over all runs. `OvershootBound` alone is not inductive, since a request
past its check is billed later without another check. `SpendInv` adds what such requests may still cost (`Owed`: the
largest answer of every run from its check to its finish record) to what is recorded, and that an open
row has cost nothing yet (`Frugal`). A check passes only below the ceiling, and then what is owed is at most an answer
of each run; closing moves a cost from the one sum to the other; every other step owes no more than before
(`Saves`). The sums are folds of the community modules over the runs and over a run's rows. A total
is defined as the size of a set with that many members (`Pile`), which the library's theorems on cardinality
add and compare; that each fold is the total is shown by a least counterexample (`TallyIsTotal`),
since the library's induction theorems take an operator as a parameter.

### Intake

`OneLiveIssue`, `EvidenceStays`, `NothingReopened`, from `IntakeInv`. No write undoes what an
Issue is about, its evidence or its end (`KeptIssues`): a copy a task still may write is the record itself
(`CopyInv`), which is what the compare-and-set asks. A review decides about its findings alone, under the
review lock, so that an incident without a live Issue when a finding is accepted still has none when the Issue is
inserted, and an older Issue of it that could forbid that was live when the finding was screened
(`ScreenedInv`).

### Administration

`StoreKeepsItsPromise`: FileStore implements AtomicStore, step by step. What a caller sees of a
call (`Seen`), the documents under their final names, and the lines of the event file that parse are the
abstract store; a call takes effect with its rename or with its line, a crash before drops it and one after
drops its reply. The invariant is that only the holder of the lock is in the middle of a call, that what
it decided by the index is still so, and that index and disk differ only in the holder's document
(`CallsInv`, `DocsInv`). `EventsKept`: sequence numbers never fall, those of acknowledged
events lie below the next, and the memory has every line that parses, the tail of the file included while
it is a record (`LogInv`). `ArchivesStayInert`: an import's place in its script tells what is
stored already, and nobody takes back what an archive holds (`ArchiveInv`, `NothingTaken`);
recovery has only the controller's own unfinished work in hand (`OthersInv`). `AsAskedOnly`: the file, the
values in force and the API's copy differ only by what the one change under the lock has done
(`SettingsInv`).

*Only model-checked.* Liveness: `RunsSettle`, `RequestsEnd`, `EveryRequestEnds`, `RunsEnd`,
`IntakeDrains` (TLAPS has no ENABLED and no fairness). `AuthorityTable` is evaluated by TLC: it is about a finite table.

## 6. Where the code and its documentation disagree

With a run each: rejecting an executing run frees its key (`claim_no_duplicate`); a crash between
a result and its reconciliation strands the Issue in Mitigating (`claim_derived`); the authority
classifies by the lists it was built with (`claim_lists_in_force`). Three more configurations end with
a counterexample, each to the statement a passing property makes with an exception:

    tlc -config ClaimModeHistory.cfg MCModeRecovery.tla   # LogTellsMode: a freeze that the log does not know of
    tlc -config ClaimFallback.cfg MCPassChain.tla         # NobodyLost: a Running pass nobody is responsible for
    tlc -config ClaimEventLines.cfg MCAdministration.tla  # ReadableAgain: an acknowledged event in no readable line

Seen while modelling (line numbers of `scheduler.rs` are given as S, of `runner.rs` as R):

*Gateway.*

- `approve_action` (S:1447) accepts a run that is still Proposed, so an approval may overtake the
  matrix, although `docs/action-authority.md:76` says a denial cannot be overridden.
  `GatewayClaims!DenyIsFinal` states it; with `Approvable = {"Proposed", "WaitingForApproval"}` TLC violates it.
- A human cannot close a Mitigating Issue as resolved, nor an Open one: `issue.rs:371` has no such
  transition, `docs/architecture.md:707-709` lets a human close.
- `create_action_run` checks the freeze before capturing a Snapshot, not "immediately before"
  the insertion (`docs/architecture.md:1078-1080`); likewise `create_job` inserts some store operations
  after its check (`CheckDispatch`, `InsertJob`).
- Rule 5 reads the runs before the decision is written, so two batches may both run the
  same automatic action (`docs/action-authority.md:88-91`). It and `claim_idempotency_key` look at archived runs too.
- The drain of `resume` ends at the first error, a run whose Issue was closed meanwhile included.
- A merge by triage between an execution's result and its reconciliation makes the latter end in
  Conflict; the run stays Verifying with nobody on it until a restart (`RunsSettle` fails in
  `gateway_progress` when Issue merges are allowed).
- `docs/action-authority.md` lists `tcp.connect` and `http.status` in row 1, which no registry entry has. The
  comment at `policy.rs:284` gives row 17 to `observe`; the code gives it to `operate.database`.
- `AuthorityPolicy::registry()` without live settings calls itself (`policy.rs:665`). The check for a missing
  implementation reads the live lists and the decision the startup ones.

*Modes and recovery.*

- A recovery that is cut off loses the reason to stay frozen (S:2317, `docs/architecture.md:1096-1099`;
  `ModeRecovery!ResumesOnlyWhenLooked`).
- Recovery keeps Ready runs; `docs/architecture.md:1091-1092` says one never started is denied.
- `set_mode` writes the memory and then the event. A freeze whose request is dropped in between is in
  force with nothing in the log, a freeze and a resume that overlap may end FullyFrozen in memory and
  `resumed` in the log, and the next clean restart resumes. `docs/architecture.md:1083-1085`
  reconstructs the mode from the events alone (`LogTellsMode`). `RestartKeepsMode` excepts
  exactly such changes (`astray`), until the next change that runs alone, or the end of the process.

*Lanes.*

- Only the time limit and a cancellation signal a command's process group. A shell that exits by itself
  (and fails) leaves what it put in the background running, and so does a dropped future, whose
  `kill_on_drop` reaches the shell alone; `docs/architecture.md:516-517` and `platform.rs:25-26` say a failed
  action never means still running. `Serialized` is about shells.
- `platform.rs:95-96` promises commands of one resource in the order they were admitted. That holds of
  requests with a common lowest target (`FirstComeFirstServed`); one that waits for a lower
  resource is overtaken on its higher ones.

*Passes.*

- A revision carries `prior.feedback` plus the new item (R:1930), and a probe or follow-up pass carries
  none; so a revision of such a pass lacks what humans said before it, although
  `docs/architecture.md:690` and `:840` promise every earlier item on the Issue.
- After a dropped request or an interrupted supersession the waiting Issue is in no bucket of the inbox
  (`docs/architecture.md:666`).
- A pass that concludes NeedsHuman, OptionsReady or Blocked leaves its Issue waiting in no bucket of the
  inbox: R:2238-2297 lists latest passes that are Completed and Jobs that need a review, and
  `docs/architecture.md:666` lists what waits. Nothing in `src/` concludes so yet (`AttendedOrAsked`,
  `Asked`); a Team that does needs a bucket first.
- `run_team` finishes the guard (R:1208) before it reads the Job and delivers the failure of a Team that
  ended in an error (R:1209-1227). A request that is dropped there, or meets an error of the store, leaves a begun
  Job Running with nobody on it until a restart; R:1137-1139 says the Job never stays Running with nobody
  responsible for it (`NobodyLost`). `BegunIsCarried` excepts the passes lost there, and those whose guard's own task fails.
- `close_issue` writes the Issue (S:2013) and then cancels its Jobs and runs one by one (S:2014). Cut off in between,
  a closed Issue keeps Running Jobs and runs that may start, until it is closed again, reconciled or
  recovered. `ClosedHasNoWork` excepts exactly that time (`cut.sweep`).
- A result whose reconciliation was cut off leaves the Issue where it was, and a restart may find the
  right status out of reach (`claim_derived`), with nothing in any inbox: `Attended` excepts Issues
  that were not reconciled since (`cut.status`).
- A pass whose result asks for more data is not terminal; dropped before it is superseded, its guard cancels it, and
  the Issue waits in no bucket of the inbox. `Attended` excepts a cancelled latest pass.
- A callback is logged (S:856-865) before the compare-and-set of its result (S:939), so the log may hold a
  callback whose result was refused.
- A Job inserted by `create_job` whose Issue write ends in Conflict, and one whose review record
  fails, is Running with nobody on it until a restart.
- A drain and `drive_passes` may both continue one pass with a follow-up: only those of
  `follow_up_after_approval` are counted by `OneSuccessorEach`.
- A Job that asks for a fresh Snapshot and is sent upstream leaves its Issue WaitingForHuman.
- A report filed while frozen leaves an Open Issue without a pass and outside the inbox, and the same report is
  a Duplicate afterwards.

*Team and spend.*

- `README.md:312` gives a run stopped on cost its wrap-up turn; `agent.rs` ends it, since the token
  limit is checked first. A request that is past `before_request` but not yet recorded when the ceiling is
  reached is not cancelled.
- `usage.rs:150` calls the spend check cumulative over the whole event log; `accounting.rs:60-74` leaves out the
  events of imported sessions, which another deployment paid for.
- A `propose_action` that times out for the model has pushed its proposal all the same.
- A refused progress delivery ends `run_job` and drops a request in flight, whose row stays started
  until a restart; a finish record that cannot be written leaves known tokens uncounted.
- A cancelled Team is dropped after two seconds and its transcript lost (`docs/architecture.md:401`).
- A request dropped while the Platform works leaves its run Running until a restart
  (`docs/architecture.md:521`).

*Intake.*

- An incident closed between the two readings of a triage (S:493, S:506) may reopen from the older
  evidence: `NoStaleIssue` excepts that window.
- A dropped manual capture leaves `review_started` without an end until a restart.
- `dispatch_pending_issues` binds the fresh Snapshot without asking whether it is newer.

*Store, archive, settings.*

- A crash or an error inside an event line leaves a line that does not parse, and `open` refuses the directory until
  somebody repairs it (`file.rs:86-112`; `docs/architecture.md:1146-1148` promises the history back). After an
  error the process goes on and the next line, acknowledged, is lost with the part before it, as is one behind a
  record without its newline: `AcknowledgedKept` says that such a loss is never silent, `StoreIsAtomic` excepts
  that one event; `file.rs:92-94` has everything persisted readable again (`ReadableAgain`). A line whose sync failed stays, and its
  sequence number is given again; so sequences are ordered, not unique (`AcknowledgedKept`).
- `session.rs:257-266` checks everything before it writes anything and leaves "orphaned immutable records rather than
  an Issue whose passes are missing". Conflicting artifacts and Snapshots are found
  after the first records are stored, and the Issue is stored before its Jobs: a crash between them leaves a partial archive that
  a second import refuses as Duplicate. Overlapping imports and a crash may leave a recorded artifact with a body
  cut off, as bodies are written in place; `ArchiveInert` asks only that there is one.
- A settings change whose event fails is in force and unknown to the API: the next change carries the old
  values back, policy ones without a freeze or a confirmation, and a repeated request may be
  answered as no change (`SettingsHold` excepts this as `doubt`). The mode is checked once; a resume may precede the
  change.
- `export_session` reads Jobs before action runs, with work going on between.

## 7. Not modelled, and why

Network I/O and parsing (probes, wire formats, consoles), text (redaction, prompts, digests, wording),
and scripts that run on machines are outside what state exploration says anything about. The terminal and
the web console are clients of the API: they poll and render, and what they may send is what the
request actions of ActionGateway, PassChain and Administration allow. Exporting a session and listing are
reads. What each module leaves out of the code it models is said under it in section 3.
