------------------------------- MODULE TeamRun -------------------------------
(***************************************************************************)
(* The model-backed Operate Team: the agent loop of the harness crate, the *)
(* tools its passes share state through, the durable ledger of model       *)
(* requests with its deployment-wide budget, and how a run ends - by its   *)
(* own conclusion, by cancellation, by a failed delivery or with the       *)
(* controller.  A conversation is abstracted to what the loop branches on: *)
(* what the provider answered, the tokens it reported and the tools it     *)
(* calls.                                                                  *)
(***************************************************************************)
EXTENDS Naturals, Sequences, FiniteSets, SequencesExt, FiniteSetsExt

CONSTANTS
    Runs,           \* the passes a Team is asked to run
    Answers,        \* [Runs -> sets of provider answers], records of Answer
    Probing,        \* the runs whose Job has an automatic pass left
    MaxTurns,       \* max_model_turns
    MaxCalls,       \* max_tool_calls
    WrapUps,        \* wrap_up_turns
    MaxRetries,     \* max_model_retries
    MaxInspections, \* max_inspections
    RunTokens,      \* max_tokens_per_run, 0 for no limit
    Budget,         \* the deployment's token ceiling
    MaxCancels,     \* bound: cancellations and closures by operators
    MaxFaults       \* bound: failed writes, crashes, full contexts

VARIABLES
    run,        \* the state of every run, as its task holds it
    ledger,     \* rows of model.request_started / model.request_finished
    seen,       \* the requests that reached the provider
    job,        \* the Job record: not yet, Running, ended
    final,      \* the result the Scheduler accepted
    mode,       \* Running or FullyFrozen
    up,         \* the controller is running
    cancels, faults

vars == <<run, ledger, seen, job, final, mode, up, cancels, faults>>

Terminal == {"probes", "solved", "diagnosis"}
Tools == Terminal \union {"inspect", "propose", "unknown"}
None == "none"

\* A turn calls tools (none: an empty turn); text answers without a tool; an
\* error may be worth a retry.
Kinds == {"turn", "text", "retry", "error"}
Answer == [kind: Kinds \union {None, "not_sent", "cancelled"}, tokens: Nat, tools: Seq(Tools)]
NoAnswer == [kind |-> None, tokens |-> 0, tools |-> <<>>]

ASSUME TeamConstants ==
    /\ \A r \in Runs : Answers[r] \subseteq [kind : Kinds, tokens : Nat, tools : Seq(Tools)]
    /\ MaxTurns \in Nat /\ MaxCalls \in Nat /\ WrapUps \in Nat /\ MaxRetries \in Nat
    /\ MaxInspections \in Nat /\ RunTokens \in Nat /\ MaxCancels \in Nat /\ MaxFaults \in Nat

\* A ceiling is set (zero disables the check), the deployment's passes are
\* finitely many, and an answer of a run is its largest, as a model's context
\* and its output limit see to it.
ASSUME BudgetConstants ==
    /\ Budget \in Nat \ {0} /\ IsFiniteSet(Runs)
    /\ \A r \in Runs : \E a \in Answers[r] : \A b \in Answers[r] : b.tokens <= a.tokens

\* The outcome of a loop, and the result it becomes.
Outcomes == {None, "Failed", "Text", "Cancelled", "LimitReached"} \union Terminal
NoResult == [outcome |-> None, proposals |-> 0]

Off == [pc |-> "off", turns |-> 0, calls |-> 0, retries |-> 0, wraps |-> 0, spent |-> 0,
        exhausted |-> FALSE, wrapping |-> FALSE, answer |-> NoAnswer, todo |-> <<>>,
        inspections |-> 0, proposals |-> 0, outcome |-> None,
        token |-> FALSE, grace |-> FALSE]

InLoop == {"head", "check", "open", "send", "wire", "close", "backoff", "calls", "tool"}
Live == InLoop \union {"ended"}

Init ==
    /\ run = [r \in Runs |-> Off]
    /\ ledger = [r \in Runs |-> <<>>]
    /\ seen = [r \in Runs |-> {}]
    /\ job = [r \in Runs |-> None]
    /\ final = [r \in Runs |-> NoResult]
    /\ mode = "Running" /\ up = TRUE
    /\ cancels = 0 /\ faults = 0

-----------------------------------------------------------------------------
(* The ledger and the budget.                                              *)

\* A started row is the request in flight; every other status is terminal.
Row(status, tokens) == [status |-> status, tokens |-> tokens]
OpenRow(rows) == rows # <<>> /\ Last(rows).status = "started"

TokensOf(rows) == FoldSeq(LAMBDA row, sum : sum + row.tokens, 0, rows)
Counted(rows) == MapThenSumSet(LAMBDA r : TokensOf(rows[r]), Runs)
Spent(rows) == Counted(rows) >= Budget

\* Reaching the ceiling freezes dispatch and cancels the other runs whose
\* request is in flight.
BudgetReason(rows, r, next) ==
    IF Spent(rows)
    THEN /\ mode' = "FullyFrozen"
         /\ run' = [q \in Runs |->
                      IF q = r THEN next
                      ELSE IF run[q].pc \in InLoop /\ OpenRow(rows[q])
                           THEN [run[q] EXCEPT !.token = TRUE]
                           ELSE run[q]]
    ELSE /\ mode' = mode
         /\ run' = [run EXCEPT ![r] = next]

\* A finished run freezes the Scheduler too when the ceiling is reached.
FreezeIfSpent == mode' = IF Spent(ledger) THEN "FullyFrozen" ELSE mode

-----------------------------------------------------------------------------
(* The loop.                                                               *)

\* What outlives the loop, and what outlives the task.
Ended(s, outcome) ==
    [Off EXCEPT !.pc = "ended", !.outcome = outcome, !.proposals = s.proposals,
                !.token = s.token, !.grace = s.grace]
Gone(s, pc) == [Off EXCEPT !.pc = pc, !.token = s.token]
To(s, pc) == [s EXCEPT !.pc = pc]
OutOfBudget(s) == s.exhausted \/ s.turns >= MaxTurns \/ s.calls >= MaxCalls

Same == UNCHANGED <<ledger, seen, job, final, mode, up, cancels, faults>>
Step(r, next) == run' = [run EXCEPT ![r] = next]

\* Admission, and the recheck of run_team once the run can be cancelled.
Begin(r) ==
    /\ up /\ run[r].pc = "off" /\ job[r] = None /\ mode = "Running"
    /\ IF Spent(ledger)
       THEN mode' = "FullyFrozen" /\ UNCHANGED <<run, job>>
       ELSE /\ job' = [job EXCEPT ![r] = "Running"]
            /\ Step(r, To(Off, "head"))
            /\ mode' = mode
    /\ UNCHANGED <<ledger, seen, final, up, cancels, faults>>

WrapUpLeft(s) == s.wraps < WrapUps

\* A turn is a wrap-up turn once a budget ran out.
NextTurn(s) ==
    [s EXCEPT !.pc = "check", !.turns = @ + 1,
              !.exhausted = OutOfBudget(s), !.wrapping = OutOfBudget(s),
              !.wraps = IF OutOfBudget(s) THEN @ + 1 ELSE @]

\* The head of the loop: stop, or start a turn.  The token limit buys no
\* wrap-up turn.
Turn(r) ==
    LET s == run[r]
        limited == RunTokens > 0 /\ s.spent >= RunTokens
    IN  /\ s.pc = "head"
        /\ Step(r, IF s.token THEN Ended(s, "Cancelled")
                   ELSE IF limited \/ (OutOfBudget(s) /\ ~WrapUpLeft(s))
                   THEN Ended(s, "LimitReached")
                   ELSE NextTurn(s))
        /\ Same

\* Fault: the gate reads the mode instead of the totals.
GatedByMode == mode = "FullyFrozen"
Gated == Spent(ledger)

\* before_request of every attempt: nothing is sent once the ceiling is
\* reached, nor a conversation that has outgrown the model's context.
Check(r) ==
    LET s == run[r] IN
    /\ s.pc = "check"
    /\ \/ s.token /\ Step(r, Ended(s, "Cancelled")) /\ UNCHANGED <<mode, faults>>
       \/ /\ ~s.token
          /\ BudgetReason(ledger, r, IF Gated THEN Ended(s, "Failed") ELSE To(s, "open"))
          /\ faults' = faults
       \/ /\ ~s.token /\ faults < MaxFaults
          /\ Step(r, Ended(s, "Failed")) /\ faults' = faults + 1 /\ mode' = mode
    /\ UNCHANGED <<ledger, seen, job, final, up, cancels>>

\* The started row is durable before the request exists.
Open(r) ==
    LET s == run[r] IN
    /\ s.pc = "open"
    /\ \/ /\ s.token
          /\ Step(r, Ended(s, "Cancelled")) /\ UNCHANGED <<ledger, faults>>
       \/ /\ ~s.token
          /\ ledger' = [ledger EXCEPT ![r] = Append(@, Row("started", 0))]
          /\ Step(r, To(s, "send")) /\ faults' = faults
       \/ /\ ~s.token /\ faults < MaxFaults
          /\ faults' = faults + 1
          /\ Step(r, Ended(s, "Failed")) /\ ledger' = ledger
    /\ UNCHANGED <<seen, job, final, mode, up, cancels>>

\* A cancellation during that write is not a network attempt.
Send(r) ==
    LET s == run[r] IN
    /\ s.pc = "send"
    /\ IF s.token
       THEN Step(r, [s EXCEPT !.pc = "close", !.answer.kind = "not_sent"]) /\ seen' = seen
       ELSE /\ Step(r, To(s, "wire"))
            /\ seen' = [seen EXCEPT ![r] = @ \union {Len(ledger[r])}]
    /\ UNCHANGED <<ledger, job, final, mode, up, cancels, faults>>

\* Cancellation is polled first: an answer and a cancellation together are a
\* cancellation.
Provider(r) ==
    /\ run[r].pc = "wire" /\ ~run[r].token
    /\ \E a \in Answers[r] : Step(r, [run[r] EXCEPT !.pc = "close", !.answer = a])
    /\ Same

Hangup(r) ==
    /\ run[r].pc = "wire" /\ run[r].token
    /\ Step(r, [run[r] EXCEPT !.pc = "close", !.answer.kind = "cancelled"])
    /\ Same

\* What the loop does with an attempt once it is recorded.
AfterAttempt(s) ==
    LET a == s.answer
        t == [s EXCEPT !.answer = NoAnswer, !.spent = @ + a.tokens]
    IN  CASE a.kind \in {"not_sent", "cancelled"} -> Ended(t, "Cancelled")
          [] a.kind = "turn" /\ a.tools # <<>> ->
                [t EXCEPT !.pc = "calls", !.todo = a.tools]
          [] a.kind = "retry" /\ s.retries < MaxRetries ->
                [t EXCEPT !.pc = "backoff", !.retries = @ + 1]
          [] a.kind = "text" -> Ended(t, "Text")
          [] OTHER -> Ended(t, "Failed")

\* Fault: a request cancelled in flight counts as not sent.
ClosingHungUp(r) ==
    Row(IF run[r].answer.kind \in {"not_sent", "cancelled"} THEN "not_sent" ELSE "closed", run[r].answer.tokens)

\* The finish record, then the budget; a failed write ends the run and leaves
\* the row started.
Closing(r) ==
    Row(IF run[r].answer.kind = "not_sent" THEN "not_sent" ELSE "closed", run[r].answer.tokens)

Close(r) ==
    /\ run[r].pc = "close"
    /\ \/ LET rows == [ledger EXCEPT ![r][Len(ledger[r])] = Closing(r)] IN
          /\ ledger' = rows
          /\ BudgetReason(rows, r, AfterAttempt(run[r]))
          /\ faults' = faults
       \/ /\ faults < MaxFaults
          /\ faults' = faults + 1
          /\ Step(r, Ended([run[r] EXCEPT !.answer = NoAnswer], "Failed"))
          /\ UNCHANGED <<ledger, mode>>
    /\ UNCHANGED <<seen, job, final, up, cancels>>

Backoff(r) ==
    /\ run[r].pc = "backoff"
    /\ \/ Step(r, To(run[r], "check"))
       \/ run[r].token /\ Step(r, Ended(run[r], "Cancelled"))
    /\ Same

-----------------------------------------------------------------------------
(* The tools of a turn.                                                    *)

Known(r, tool) == tool # "unknown" /\ (tool = "probes" => r \in Probing)

\* Fault: a refused call is not answered.
SkipUnanswered(s) == s
\* A refused call is answered with an error and the loop goes on.
Skip(s) == [s EXCEPT !.todo = Tail(@)]

\* A wrap-up turn has only the terminal tools; a call past the budget is
\* refused and the next turn wraps up; an unknown tool is charged.
AfterCall(s, r) ==
    LET tool == Head(s.todo) IN
    IF s.wrapping /\ ~(Known(r, tool) /\ tool \in Terminal) THEN Skip(s)
    ELSE IF ~s.wrapping /\ s.calls >= MaxCalls THEN [Skip(s) EXCEPT !.exhausted = TRUE]
    ELSE IF Known(r, tool) THEN [s EXCEPT !.calls = @ + 1, !.pc = "tool"]
    ELSE [Skip(s) EXCEPT !.calls = @ + 1]

NextCall(r) ==
    LET s == run[r] IN
    /\ s.pc = "calls"
    /\ \/ s.token /\ Step(r, Ended(s, "Cancelled"))
       \/ ~s.token /\ s.todo = <<>> /\ Step(r, To(s, "head"))
       \/ ~s.token /\ s.todo # <<>> /\ Step(r, AfterCall(s, r))
    /\ Same

\* Fault: one inspection too many.
RefusedLate(s, tool) ==
    CASE tool \in {"probes", "solved"} -> s.proposals > 0
      [] tool = "inspect" -> s.inspections > MaxInspections
      [] OTHER -> FALSE

\* A pass acts on one Snapshot: no probes and no success next to proposals.
Refused(s, tool) ==
    CASE tool \in {"probes", "solved"} -> s.proposals > 0
      [] tool = "inspect" -> s.inspections >= MaxInspections
      [] OTHER -> FALSE

\* What a handler does to the state its run shares, whether or not the call
\* timed out for the model.
Effect(s, tool) ==
    IF Refused(s, tool) THEN s
    ELSE [s EXCEPT !.inspections = IF tool = "inspect" THEN @ + 1 ELSE @,
                   !.proposals = IF tool = "propose" THEN @ + 1 ELSE @]

\* Fault: a conclusion wins over a cancellation.
ConcludesAnyway(s, tool) == tool \in Terminal /\ ~Refused(s, tool)
\* A terminal call that succeeds concludes the run, unless it was cancelled
\* meanwhile.
Concludes(s, tool) == tool \in Terminal /\ ~Refused(s, tool) /\ ~s.token

Tool(r) ==
    LET s == run[r]
        tool == Head(s.todo)
        t == [Effect(s, tool) EXCEPT !.todo = Tail(@), !.pc = "calls"]
    IN  /\ s.pc = "tool"
        /\ Step(r, IF Concludes(s, tool) THEN Ended(t, tool) ELSE t)
        /\ Same

-----------------------------------------------------------------------------
(* How a run reaches the Scheduler, and who may stop it.                   *)

\* Progress is delivered alongside the loop, from a queue that is never empty
\* for long.  A delivery the Scheduler refuses, because the Job has ended, makes
\* run_job return and drops the loop where it stands.
DeliveryFails(r) ==
    /\ run[r].pc \in Live /\ job[r] # "Running"
    /\ Step(r, Gone(run[r], "error"))
    /\ Same

\* The result of a finished loop: only a conclusion keeps its proposals.
ResultOf(s) ==
    [outcome |-> IF s.outcome \in Terminal THEN s.outcome ELSE "Failed",
     proposals |-> IF s.outcome \in {"solved", "diagnosis"} THEN s.proposals ELSE 0]
Failed == [outcome |-> "Failed", proposals |-> 0]

Accept(r, result) ==
    /\ final' = [final EXCEPT ![r] = result]
    /\ job' = [job EXCEPT ![r] = "Ended"]
    /\ Step(r, Gone(run[r], "done"))
    /\ FreezeIfSpent

\* The transcript is archived - or could not be, which fails the pass - and the
\* result follows the last of the progress.
Deliver(r) ==
    /\ run[r].pc = "ended"
    /\ \/ job[r] = "Running" /\ Accept(r, ResultOf(run[r])) /\ faults' = faults
       \/ job[r] = "Running" /\ faults < MaxFaults /\ faults' = faults + 1 /\ Accept(r, Failed)
       \/ /\ job[r] # "Running"
          /\ Step(r, Gone(run[r], "error"))
          /\ UNCHANGED <<final, job, mode, faults>>
    /\ UNCHANGED <<ledger, seen, up, cancels>>

\* run_team's own end of a Job whose Team returned an error.
Fallback(r) ==
    /\ run[r].pc = "error"
    /\ IF job[r] = "Running"
       THEN Accept(r, Failed)
       ELSE Step(r, Gone(run[r], "done")) /\ FreezeIfSpent /\ UNCHANGED <<final, job>>
    /\ UNCHANGED <<ledger, seen, up, cancels, faults>>

\* The grace period of an interrupted pass runs out: the run is dropped where it
\* stands.
Abort(r) ==
    /\ run[r].pc \in Live /\ run[r].grace
    /\ Step(r, Gone(run[r], "error"))
    /\ Same

Signalled(s) == IF s.pc \in Live THEN [s EXCEPT !.token = @ \/ s.pc \in InLoop, !.grace = TRUE] ELSE s

\* An operator interrupts the pass.
CancelPass(r) ==
    /\ up /\ cancels < MaxCancels /\ run[r].pc \in Live /\ ~run[r].grace
    /\ Step(r, Signalled(run[r])) /\ cancels' = cancels + 1
    /\ UNCHANGED <<ledger, seen, job, final, mode, up, faults>>

\* The Issue closes: its Job ends and the run is told.
CloseIssue(r) ==
    /\ up /\ cancels < MaxCancels /\ job[r] = "Running"
    /\ job' = [job EXCEPT ![r] = "Ended"]
    /\ Step(r, Signalled(run[r])) /\ cancels' = cancels + 1
    /\ UNCHANGED <<ledger, seen, final, mode, up, faults>>

\* An operator resumes, without having raised the ceiling.
Resume ==
    /\ up /\ mode = "FullyFrozen"
    /\ mode' = "Running"
    /\ UNCHANGED <<run, ledger, seen, job, final, up, cancels, faults>>

Crash ==
    /\ up /\ faults < MaxFaults
    /\ up' = FALSE /\ faults' = faults + 1
    /\ run' = [r \in Runs |-> IF run[r].pc \in Live \union {"error"} THEN Gone(run[r], "done") ELSE run[r]]
    /\ UNCHANGED <<ledger, seen, job, final, mode, cancels>>

\* Recovery ends the rows and the Jobs of the process that is gone.
Interrupted(rows) ==
    [i \in DOMAIN rows |->
        IF rows[i].status = "started" THEN [rows[i] EXCEPT !.status = "interrupted"] ELSE rows[i]]

Recover ==
    /\ ~up
    /\ up' = TRUE
    /\ ledger' = [r \in Runs |-> Interrupted(ledger[r])]
    /\ job' = [r \in Runs |-> IF job[r] = "Running" THEN "Ended" ELSE job[r]]
    /\ final' = [r \in Runs |-> IF job[r] = "Running" THEN Failed ELSE final[r]]
    /\ mode' = IF \E r \in Runs : job[r] = "Running" THEN "FullyFrozen" ELSE mode
    /\ UNCHANGED <<run, seen, cancels, faults>>

-----------------------------------------------------------------------------
LoopStep(r) ==
    \/ Turn(r) \/ Check(r) \/ Open(r) \/ Send(r) \/ Hangup(r) \/ Close(r)
    \/ Backoff(r) \/ NextCall(r) \/ Tool(r)
RunStep(r) == LoopStep(r) \/ Deliver(r) \/ Fallback(r)

Next ==
    \/ \E r \in Runs : \/ Begin(r) \/ RunStep(r) \/ Provider(r) \/ DeliveryFails(r) \/ Abort(r)
                       \/ CancelPass(r) \/ CloseIssue(r)
    \/ Resume \/ Crash \/ Recover

\* The tasks of the runtime go on and the transport answers or times out; an
\* operator and a crash are free to do nothing, and so is the grace period.
Fairness == \A r \in Runs : WF_vars(RunStep(r) \/ Provider(r))
Spec == Init /\ [][Next]_vars
FairSpec == Spec /\ Fairness

-----------------------------------------------------------------------------
(* Properties.                                                             *)

Loops == [pc : InLoop \union {"off", "ended", "error", "done"},
          turns : Nat, calls : Nat, retries : 0..MaxRetries, wraps : 0..WrapUps, spent : Nat,
          exhausted : BOOLEAN, wrapping : BOOLEAN, answer : Answer, todo : Seq(Tools),
          inspections : Nat, proposals : Nat, outcome : Outcomes,
          token : BOOLEAN, grace : BOOLEAN]
Rows == [status : {"started", "closed", "not_sent", "interrupted"}, tokens : Nat]
Results == [outcome : {None, "Failed"} \union Terminal, proposals : Nat]

\* Every variable has its type; a run counts its retries and wrap-ups within
\* their budgets.
TypeOK ==
    /\ run \in [Runs -> Loops]
    /\ ledger \in [Runs -> Seq(Rows)]
    /\ seen \in [Runs -> SUBSET Nat]
    /\ job \in [Runs -> {None, "Running", "Ended"}]
    /\ final \in [Runs -> Results]
    /\ mode \in {"Running", "FullyFrozen"}
    /\ up \in BOOLEAN /\ cancels \in 0..MaxCancels /\ faults \in 0..MaxFaults

\* The deployment overshoots its ceiling by at most one answer of every run:
\* each may have had one request past the check when the ceiling was reached,
\* and none starts another, through resumes, retries, crashes and new runs
\* (harness.before_request, budget_reason).
LargestAnswer(r) == Max({a.tokens : a \in Answers[r]})
OvershootBound == Counted(ledger) < Budget + MapThenSumSet(LargestAnswer, Runs)

\* The ledger tells the truth about the provider: an attempt is recorded before
\* it is sent and closed before the next one opens, an attempt recorded as not
\* sent never reached the provider and a closed one did.
LedgerTrue ==
    \A r \in Runs :
        /\ seen[r] \subseteq DOMAIN ledger[r]
        /\ \A i \in DOMAIN ledger[r] :
              /\ ledger[r][i].status = "started" => i = Len(ledger[r])
              /\ ledger[r][i].status = "not_sent" => i \notin seen[r]
              /\ ledger[r][i].status = "closed" => i \in seen[r]

\* What the Scheduler is told is whole: a run that was cancelled before it
\* concluded reports a failure, and only a diagnosis carries proposals - a
\* failure, a probe request and a success act on nothing.
ResultWhole ==
    \A r \in Runs :
        /\ run[r].token /\ run[r].pc = "done" => final[r].outcome \in {None, "Failed"}
        /\ final[r].proposals > 0 => final[r].outcome = "diagnosis"

\* The budgets of one run: its requests are bounded by turns, wrap-up turns and
\* retries together, its tool calls by the call budget until it wraps up, and
\* its inspections by their allowance.
WithinLimits ==
    \A r \in Runs :
        /\ Len(ledger[r]) <= MaxTurns + WrapUps + MaxRetries
        /\ run[r].calls <= MaxCalls \/ run[r].wraps > 0
        /\ run[r].inspections <= MaxInspections

\* Every pass ends, whatever the model answers and whoever stops it.
RunsEnd == \A r \in Runs : run[r].pc # "off" ~> run[r].pc = "done"
=============================================================================
